---- MODULE Spec2Model ----
(***************************************************************************)
(* State-machine model of the basket/sample feature pipelines of           *)
(* pipelines/data_handler/processor.py (Processor, SquadProcessor,         *)
(* TextSimilarityProcessor).  One SquadProcessor and one                   *)
(* TextSimilarityProcessor are modelled, each with its own thread of       *)
(* control.                                                                *)
(*                                                                         *)
(* Conventions                                                             *)
(*  - a Python str is a sequence of one-character strings;                 *)
(*  - a Python list is a sequence; every index stored in the state         *)
(*    (offsets, token indices, labels) is the 0-based Python index;        *)
(*  - a Python dict is a record, `k in d` is k \in DOMAIN d;               *)
(*  - an Optional value is [some |-> BOOLEAN, val |-> v];                  *)
(*  - the string "f'{a}-{b}'" of non-negative integers is the sequence of  *)
(*    its "-"-separated fields, so that split("-") is the sequence itself  *)
(*    (basket indices are never negative in the inputs drawn here).        *)
(***************************************************************************)
EXTENDS Integers, Sequences, FiniteSets, TLC

VARIABLES
    pc,                      \* position of the single thread of control
    init_args,               \* arguments of the last SquadProcessor.__init__ call
    tokenizer,               \* self.tokenizer
    max_seq_len,             \* self.max_seq_len
    doc_stride,              \* self.doc_stride
    max_query_length,        \* self.max_query_length
    max_answers,             \* self.max_answers
    sp_toks_start,           \* self.sp_toks_start
    sp_toks_mid,             \* self.sp_toks_mid
    sp_toks_end,             \* self.sp_toks_end
    problematic_sample_ids,  \* self.problematic_sample_ids
    dicts,                   \* argument of the running dataset_from_dicts call
    indices,                 \* argument `indices` (Optional list)
    return_baskets,          \* argument `return_baskets`
    pre_baskets,             \* local of dataset_from_dicts
    baskets,                 \* local of dataset_from_dicts
    returned,                \* value returned by the last completed call
    raised,                  \* exception that ended the last operation, or "none"
    n_calls,                 \* number of dataset_from_dicts calls started
    last_call,               \* arguments, parameters and rows of the last observed call
    ts_pc,                   \* position of control in the TextSimilarityProcessor
    query_tokenizer,         \* self.query_tokenizer
    passage_tokenizer,       \* self.passage_tokenizer
    embed_title,             \* self.embed_title
    num_hard_negatives,      \* self.num_hard_negatives
    num_positives,           \* self.num_positives
    shuffle_negatives,       \* self.shuffle_negatives
    shuffle_positives,       \* self.shuffle_positives
    tasks,                   \* self.tasks
    task_args,               \* arguments of the last add_task call
    ts_dicts,                \* argument `dicts` of the running retrieval call
    ts_indices,              \* argument `indices` of the running retrieval call
    ts_return_baskets,       \* argument `return_baskets` of the running retrieval call
    ts_baskets,              \* local `baskets` of the retrieval call (Optional list)
    ts_returned,             \* value returned by the last completed retrieval call
    ts_raised,               \* exception that ended the last retrieval operation
    ts_calls                 \* number of retrieval calls started

selfVars == <<init_args, tokenizer, max_seq_len, doc_stride, max_query_length, max_answers,
              sp_toks_start, sp_toks_mid, sp_toks_end>>
argVars == <<dicts, indices, return_baskets>>
\* the SquadProcessor and its running call
qaVars == <<pc, init_args, tokenizer, max_seq_len, doc_stride, max_query_length, max_answers,
            sp_toks_start, sp_toks_mid, sp_toks_end, problematic_sample_ids,
            dicts, indices, return_baskets, pre_baskets, baskets, returned,
            raised, n_calls, last_call>>
tsSelfVars == <<query_tokenizer, passage_tokenizer, embed_title, num_hard_negatives,
                num_positives, shuffle_negatives, shuffle_positives>>
tsArgVars == <<ts_dicts, ts_indices, ts_return_baskets>>
\* the TextSimilarityProcessor and its running call
tsVars == <<ts_pc, query_tokenizer, passage_tokenizer, embed_title, num_hard_negatives,
            num_positives, shuffle_negatives, shuffle_positives, tasks, task_args,
            ts_dicts, ts_indices, ts_return_baskets, ts_baskets, ts_returned,
            ts_raised, ts_calls>>
vars == <<pc, init_args, tokenizer, max_seq_len, doc_stride, max_query_length, max_answers,
          sp_toks_start, sp_toks_mid, sp_toks_end, problematic_sample_ids,
          dicts, indices, return_baskets, pre_baskets, baskets, returned,
          raised, n_calls, last_call,
          ts_pc, query_tokenizer, passage_tokenizer, embed_title, num_hard_negatives,
          num_positives, shuffle_negatives, shuffle_positives, tasks, task_args,
          ts_dicts, ts_indices, ts_return_baskets, ts_baskets, ts_returned,
          ts_raised, ts_calls>>

----------------------------------------------------------------------------
(* Bounds of the model                                                     *)

MaxDicts == 2
MaxCalls == 2

----------------------------------------------------------------------------
(* Python built-ins                                                        *)

Min(a, b) == IF a <= b THEN a ELSE b
Max(a, b) == IF a >= b THEN a ELSE b

None == [some |-> FALSE, val |-> <<>>]
Some(v) == [some |-> TRUE, val |-> v]

\* s[lo:hi], with Python's clipping and negative indices
PyIndex(n, i) == IF i < 0 THEN Max(n + i, 0) ELSE Min(i, n)
PySlice(s, lo, hi) == SubSeq(s, PyIndex(Len(s), lo) + 1, PyIndex(Len(s), hi))

\* [x] * n
Repeat(x, n) == [i \in 1..n |-> x]

\* s.strip()
Strip(s) ==
    LET keep == {i \in 1..Len(s) : s[i] # " "}
    IN  IF keep = {} THEN <<>>
        ELSE SubSeq(s, CHOOSE i \in keep : \A j \in keep : i <= j,
                       CHOOSE i \in keep : \A j \in keep : i >= j)

\* t in s, for strings
IsSubstring(t, s) ==
    \E i \in 0..(Len(s) - Len(t)) : SubSeq(s, i + 1, i + Len(t)) = t

\* vec.index(x)
IndexOf(vec, x) == (CHOOSE i \in 1..Len(vec) : vec[i] = x /\ \A j \in 1..(i-1) : vec[j] # x) - 1

\* the elements of a set of integers in increasing order
SortedSeq(S) ==
    [k \in 1..Cardinality(S) |-> CHOOSE x \in S : Cardinality({y \in S : y < x}) = k - 1]

----------------------------------------------------------------------------
(* The tokenizer capability (external collaborator).  A tokenizer is a     *)
(* record [start, mid, end_, pad]: the numbers of special tokens it puts   *)
(* before, between and after a pair of sequences, and its pad token id.    *)

BertLike == [start |-> 1, mid |-> 1, end_ |-> 1, pad |-> 0]
RobertaLike == [start |-> 1, mid |-> 2, end_ |-> 1, pad |-> 1]
Tokenizers == {BertLike, RobertaLike}

\* every special token has the id 2 (distinct from every word and probe token)
build_inputs_with_special_tokens(tok, token_ids_0, token_ids_1) ==
    Repeat(2, tok.start) \o token_ids_0 \o Repeat(2, tok.mid)
        \o token_ids_1 \o Repeat(2, tok.end_)

create_token_type_ids_from_sequences(tok, token_ids_0, token_ids_1) ==
    Repeat(0, tok.start + Len(token_ids_0) + tok.mid)
        \o Repeat(1, Len(token_ids_1) + tok.end_)

num_special_tokens_to_add(tok) == tok.start + tok.mid + tok.end_

\* _initialize_special_tokens_count: probe with the one-token sequences
\* ["a"] and ["b"] (here the token ids 90 and 91)
InitializeSpecialTokensCount(tok) ==
    LET vec == build_inputs_with_special_tokens(tok, <<90>>, <<91>>)
        start == IndexOf(vec, 90)
    IN  [sp_toks_start |-> start,
         sp_toks_mid |-> IndexOf(vec, 91) - start - 1,
         sp_toks_end |-> Len(vec) - IndexOf(vec, 91) - 1]

----------------------------------------------------------------------------
(* Batch tokenization and the offset utilities (collaborators of the       *)
(* processor: pipelines.utils.tokenization, pipelines.data_handler.samples)*)

\* 1-based positions at which a whitespace-separated word of text starts
WordStarts(text) ==
    {i \in 1..Len(text) : text[i] # " " /\ (i = 1 \/ text[i - 1] = " ")}

TokenId(c) ==
    CASE c = "a" -> 10 [] c = "b" -> 11 [] c = "c" -> 12 [] c = "q" -> 13
      [] OTHER -> 14

\* encode-like call: one token per word, its id, the character offset of
\* its first character and its start-of-word flag
Encode(text) ==
    LET starts == SortedSeq(WordStarts(text))
    IN  [tokens |-> [k \in 1..Len(starts) |-> TokenId(text[starts[k]])],
         offsets |-> [k \in 1..Len(starts) |-> starts[k] - 1],
         start_of_word |-> [k \in 1..Len(starts) |-> 1]]

\* the baskets of one pre-basket: one per entry of d["qas"]
BasketsOfDoc(d, index) ==
    LET doc == Encode(d.context)
    IN  [i_q \in 1..Len(d.qas) |->
            LET q == Encode(d.qas[i_q].question)
            IN  [id_internal |-> <<index, i_q - 1>>,
                 raw |-> [document_text |-> d.context,
                          document_tokens |-> doc.tokens,
                          document_offsets |-> doc.offsets,
                          document_start_of_word |-> doc.start_of_word,
                          question_tokens |-> q.tokens,
                          question_offsets |-> q.offsets,
                          question_start_of_word |-> q.start_of_word,
                          answers |-> d.qas[i_q].answers],
                 samples |-> None]]

RECURSIVE Flatten(_)
Flatten(lists) ==
    IF Len(lists) = 0 THEN <<>> ELSE Head(lists) \o Flatten(Tail(lists))

\* tokenize_batch_question_answering(pre_baskets, tokenizer, indices):
\* basket ids are "{indices[i_doc]}-{i_q}", positional when indices is absent
tokenize_batch_question_answering(pre, idx) ==
    Flatten([i \in 1..Len(pre) |->
                BasketsOfDoc(pre[i], IF idx.some THEN idx.val[i] ELSE i - 1)])

\* offset_to_token_idx_vecorized(token_offsets, ch_idx): index of the token
\* that contains the character ch_idx (-1 before the first token)
offset_to_token_idx_vecorized(token_offsets, ch_idx) ==
    LET n == Len(token_offsets)
        mx == CHOOSE m \in {token_offsets[k] : k \in 1..n} :
                  \A k \in 1..n : token_offsets[k] <= m
    IN  IF ch_idx >= mx
        THEN (CHOOSE k \in 1..n : token_offsets[k] = mx) - 1
        ELSE (CHOOSE k \in 1..n : token_offsets[k] > ch_idx
                  /\ \A j \in 1..(k - 1) : token_offsets[j] <= ch_idx) - 2

\* get_passage_offsets(doc_offsets, doc_stride, passage_len_t, doc_text):
\* strided sliding window over the document tokens.  Reading the offset of
\* a window start at or beyond the end of the document raises (this is the
\* failure on empty offsets and on a budget that leaves no room).
RECURSIVE PassageSpans(_, _, _, _, _)
PassageSpans(doc_offsets, stride, passage_len_t, passage_id, acc) ==
    LET passage_start_t == passage_id * stride
        passage_end_t == passage_start_t + passage_len_t
    IN  IF passage_start_t >= Len(doc_offsets)
        THEN [raised |-> TRUE, spans |-> <<>>]
        ELSE LET span == [passage_id |-> passage_id,
                          passage_start_t |-> passage_start_t,
                          passage_end_t |-> passage_end_t,
                          passage_start_c |-> doc_offsets[passage_start_t + 1]]
             IN  IF passage_end_t >= Len(doc_offsets)
                 THEN [raised |-> FALSE, spans |-> Append(acc, span)]
                 ELSE PassageSpans(doc_offsets, stride, passage_len_t,
                                   passage_id + 1, Append(acc, span))

get_passage_offsets(doc_offsets, stride, passage_len_t) ==
    PassageSpans(doc_offsets, stride, passage_len_t, 0, <<>>)

----------------------------------------------------------------------------
(* Dictionaries                                                            *)

\* d[k] = v, adding the key when it is absent
DictSet(d, k, v) == [x \in DOMAIN d \cup {k} |-> IF x = k THEN v ELSE d[x]]
\* d.get(k, default)
DictGet(d, k, default) == IF k \in DOMAIN d THEN d[k] ELSE default

----------------------------------------------------------------------------
(* Processor._check_sample_features                                        *)

\* faulty variant of _check_sample_features: one sample with features is enough
CheckSomeSampleFeatures(basket) ==
    /\ basket.samples.some
    /\ \E k \in 1..Len(basket.samples.val) : basket.samples.val[k].features.some

_check_sample_features(basket) ==
    /\ basket.samples.some
    /\ Len(basket.samples.val) # 0
    /\ \A k \in 1..Len(basket.samples.val) : basket.samples.val[k].features.some

----------------------------------------------------------------------------
(* The tokenizers of the retrieval pipeline (external collaborators),      *)
(* called as tokenizer(x).  A tokenizer is a record [special]: whether it  *)
(* wraps a sequence in special tokens.                                     *)

WithSpecialTokens == [special |-> TRUE]
Plain == [special |-> FALSE]

\* tokenizer(text) for one str: {"input_ids": [...], "token_type_ids": [...]}
EncodeOne(tok, text) ==
    LET ids == Encode(text).tokens
        full == IF tok.special THEN <<2>> \o ids \o <<2>> ELSE ids
    IN  [input_ids |-> full, token_type_ids |-> Repeat(0, Len(full))]

\* tokenizer(texts) for a list or tuple of str: a batch, one entry per str
EncodeBatch(tok, texts) ==
    [input_ids |-> [i \in 1..Len(texts) |-> EncodeOne(tok, texts[i]).input_ids],
     token_type_ids |-> [i \in 1..Len(texts) |-> EncodeOne(tok, texts[i]).token_type_ids]]

\* an element of all_ctx: the tuple (title, text), or the str text
CtxPair(title, text) == [tuple |-> <<title, text>>]
CtxText(text) == [str |-> text]

\* tokenizer(x) for x a tuple of str or a str
TokenizerCall(tok, x) ==
    IF "tuple" \in DOMAIN x THEN EncodeBatch(tok, x.tuple) ELSE EncodeOne(tok, x.str)

----------------------------------------------------------------------------
(* Processor.add_task                                                      *)

\* a Python value with its type: type(label_list) is list
PyList(v) == [type |-> "list", val |-> v]
PyTuple(v) == [type |-> "tuple", val |-> v]
PyNone == [type |-> "NoneType", val |-> <<>>]

LabelSuffix == <<"_", "l", "a", "b", "e", "l">>
IdsSuffix == <<"_", "i", "d", "s">>

\* faulty variant of TaskDescriptor: the tensor name is the label name itself
TaskDescriptorNoSuffix(name, metric, label_list, label_name, task_type) ==
    LET ln == IF label_name.some THEN label_name.val ELSE name \o LabelSuffix
    IN  [label_list |-> label_list,
         metric |-> metric,
         label_tensor_name |-> ln,
         label_name |-> ln,
         label_column_name |-> None,
         text_column_name |-> None,
         task_type |-> task_type]

\* the descriptor add_task stores; label_name is Optional
TaskDescriptor(name, metric, label_list, label_name, task_type) ==
    LET ln == IF label_name.some THEN label_name.val ELSE name \o LabelSuffix
    IN  [label_list |-> label_list,
         metric |-> metric,
         label_tensor_name |-> ln \o IdsSuffix,
         label_name |-> ln,
         label_column_name |-> None,
         text_column_name |-> None,
         task_type |-> task_type]

\* [raised, tasks]: the exception raised and the registry after the call
add_task(registry, name, metric, label_list, label_name, task_type) ==
    IF label_list.type # "list"
    THEN [raised |-> "ValueError", tasks |-> registry]
    ELSE [raised |-> "none",
          tasks |-> DictSet(registry, name,
                            TaskDescriptor(name, metric, label_list, label_name,
                                           task_type))]

----------------------------------------------------------------------------
(* TextSimilarityProcessor                                                 *)

\* faulty variant of _fill_baskets: ids are positional whatever indices is
FillBasketsPositional(ds, idx) ==
    [i \in 1..Len(ds) |-> [id_internal |-> i - 1, raw |-> ds[i], samples |-> None]]

_fill_baskets(ds, idx) ==
    LET ids == IF ~idx.some \/ Len(idx.val) = 0
               THEN [i \in 1..Len(ds) |-> i - 1]
               ELSE idx.val
    IN  [i \in 1..Min(Len(ds), Len(ids)) |->     \* zip stops at the shorter list
            [id_internal |-> ids[i], raw |-> ds[i], samples |-> None]]

\* [raised, val]; question[-1] raises IndexError on the empty string
_normalize_question(question) ==
    IF Len(question) = 0
    THEN [raised |-> "IndexError", val |-> question]
    ELSE IF question[Len(question)] = "?"
    THEN [raised |-> "none", val |-> PySlice(question, 0, -1)]
    ELSE [raised |-> "none", val |-> question]

\* basket.samples = [Sample(id="", clear_text, tokenized, features)]
WithSample(basket, clear_text, tokenized, features) ==
    [basket EXCEPT !.samples =
        Some(<<[id |-> <<>>, clear_text |-> clear_text, tokenized |-> tokenized,
                features |-> features]>>)]

\* one pass of the loop of _convert_queries; returns_none: the function
\* returns None from inside the loop
ConvertQuery(basket) ==
    IF "query" \notin DOMAIN basket.raw
    THEN [returns_none |-> FALSE,
          basket |-> WithSample(basket, <<>>, <<>>, Some(<<<<>>>>))]
    ELSE
    LET normalized == _normalize_question(basket.raw.query)
        query == normalized.val
        query_inputs == EncodeOne(query_tokenizer, query)
        tokenized_query == query_inputs.input_ids
    IN  IF normalized.raised # "none"
        THEN [returns_none |-> FALSE, basket |-> WithSample(basket, <<>>, <<>>, None)]
        ELSE IF Len(tokenized_query) = 0
        THEN [returns_none |-> TRUE, basket |-> basket]
        ELSE [returns_none |-> FALSE,
              basket |->
                 WithSample(basket,
                            [query_text |-> query],
                            [query_tokens |-> tokenized_query],
                            Some(<<[query_input_ids |-> query_inputs.input_ids,
                                    query_segment_ids |-> query_inputs.token_type_ids]>>))]

\* Optional list of baskets: None when a query has no token
_convert_queries(bs) ==
    LET results == [b \in 1..Len(bs) |-> ConvertQuery(bs[b])]
    IN  IF \E b \in 1..Len(bs) : results[b].returns_none
        THEN None
        ELSE Some([b \in 1..Len(bs) |-> results[b].basket])

----------------------------------------------------------------------------
(* SquadProcessor.convert_qa_input_dict                                    *)

\* faulty variant of StrideCheck: the comparison admits equality
StrideCheckOffByOne(stride, seq_len, query_length) == stride <= (seq_len - query_length)

\* the construction check, repeated at the head of convert_qa_input_dict
StrideCheck(stride, seq_len, query_length) == stride < (seq_len - query_length)

\* faulty variant of ExternalToInternal: the id of the record is not copied
ExternalToInternalNoId(infer_dict) ==
    [qas |-> [i \in 1..Len(infer_dict.questions) |->
                 [question |-> infer_dict.questions[i], id |-> "<None>",
                  answers |-> <<>>, answer_type |-> "<None>"]],
     context |-> infer_dict.text]

ExternalToInternal(infer_dict) ==
    LET questions == infer_dict.questions
        text == infer_dict.text
        uid == DictGet(infer_dict, "id", "<None>")
    IN  [qas |-> [i \in 1..Len(questions) |->
                     [question |-> questions[i], id |-> uid,
                      answers |-> <<>>, answer_type |-> "<None>"]],
         context |-> text]

\* faulty variant of convert_qa_input_dict: the stride check is not repeated
ConvertWithoutStrideCheck(infer_dict) ==
    IF "context" \in DOMAIN infer_dict /\ "qas" \in DOMAIN infer_dict
    THEN [raised |-> "none", val |-> infer_dict]
    ELSE IF "questions" \notin DOMAIN infer_dict \/ "text" \notin DOMAIN infer_dict
    THEN [raised |-> "Exception", val |-> <<>>]
    ELSE [raised |-> "none", val |-> ExternalToInternal(infer_dict)]

\* faulty variant of convert_qa_input_dict: a record of neither shape is
\* turned into an empty record instead of raising
ConvertLenient(infer_dict) ==
    IF ~StrideCheck(doc_stride, max_seq_len, max_query_length)
    THEN [raised |-> "AssertionError", val |-> <<>>]
    ELSE IF "context" \in DOMAIN infer_dict /\ "qas" \in DOMAIN infer_dict
    THEN [raised |-> "none", val |-> infer_dict]
    ELSE IF "questions" \notin DOMAIN infer_dict \/ "text" \notin DOMAIN infer_dict
    THEN [raised |-> "none", val |-> [qas |-> <<>>, context |-> <<>>]]
    ELSE [raised |-> "none", val |-> ExternalToInternal(infer_dict)]

\* [raised, val]: the exception raised ("none" when it returns) and the value
convert_qa_input_dict(infer_dict) ==
    IF ~StrideCheck(doc_stride, max_seq_len, max_query_length)
    THEN [raised |-> "AssertionError", val |-> <<>>]
    ELSE IF "context" \in DOMAIN infer_dict /\ "qas" \in DOMAIN infer_dict
    THEN [raised |-> "none", val |-> infer_dict]
    ELSE IF "questions" \notin DOMAIN infer_dict \/ "text" \notin DOMAIN infer_dict
    THEN [raised |-> "Exception", val |-> <<>>]
    ELSE [raised |-> "none", val |-> ExternalToInternal(infer_dict)]

----------------------------------------------------------------------------
(* SquadProcessor._split_docs_into_passages                                *)

SampleOfSpan(basket, passage_span) ==
    LET passage_start_t == passage_span.passage_start_t
        passage_end_t == passage_span.passage_end_t
    IN  [id |-> Append(basket.id_internal, passage_span.passage_id),
         tokenized |->
            [passage_start_t |-> passage_start_t,
             passage_start_c |-> passage_span.passage_start_c,
             passage_tokens |->
                PySlice(basket.raw.document_tokens, passage_start_t, passage_end_t),
             passage_start_of_word |->
                PySlice(basket.raw.document_start_of_word, passage_start_t, passage_end_t),
             question_tokens |->
                PySlice(basket.raw.question_tokens, 0, max_query_length),
             question_offsets |->
                PySlice(basket.raw.question_offsets, 0, max_query_length),
             question_start_of_word |->
                PySlice(basket.raw.question_start_of_word, 0, max_query_length)],
         features |-> None]

\* tokens that can be reserved for the passage
PassageLenT(basket) ==
    max_seq_len - Len(PySlice(basket.raw.question_tokens, 0, max_query_length))
        - num_special_tokens_to_add(tokenizer)

\* faulty variant of SplitBasket: a basket whose windowing raises is left
\* without a sample list
SplitBasketUnassigned(basket) ==
    IF basket.raw.document_text = <<>>
    THEN basket
    ELSE LET got == get_passage_offsets(basket.raw.document_offsets, doc_stride,
                                        PassageLenT(basket))
         IN  IF got.raised
             THEN basket
             ELSE [basket EXCEPT !.samples =
                      Some([k \in 1..Len(got.spans) |->
                               SampleOfSpan(basket, got.spans[k])])]

SplitBasket(basket) ==
    IF basket.raw.document_text = <<>>
    THEN basket      \* `continue`: basket.samples is left as it was
    ELSE LET got == get_passage_offsets(basket.raw.document_offsets, doc_stride,
                                        PassageLenT(basket))
             passage_spans == IF got.raised THEN <<>> ELSE got.spans
         IN  [basket EXCEPT !.samples =
                 Some([k \in 1..Len(passage_spans) |->
                          SampleOfSpan(basket, passage_spans[k])])]

_split_docs_into_passages(bs) == [b \in 1..Len(bs) |-> SplitBasket(bs[b])]

----------------------------------------------------------------------------
(* SquadProcessor._convert_answers                                         *)

\* faulty variant of SeqTwoStart: the position depends on the samples the
\* processor has recorded as problematic so far
SeqTwoStartDrifting(question_len_t) ==
    sp_toks_start + question_len_t + sp_toks_mid + Cardinality(problematic_sample_ids)

\* position of the first passage token in the joined sequence
SeqTwoStart(question_len_t) == sp_toks_start + question_len_t + sp_toks_mid

\* faulty variant of NoAnswerLabels: every row is set to (0, 0)
NoAnswerLabelsAllRows(label_idxs) == [r \in 1..Len(label_idxs) |-> <<0, 0>>]

\* label_idxs[0, :] = 0 on a fresh array: the no-answer label
NoAnswerLabels(label_idxs) == [label_idxs EXCEPT ![1] = <<0, 0>>]

\* label_idxs[i][0] = s; label_idxs[i][1] = e   (i is the 0-based row)
SetRow(label_idxs, i, s, e) == [label_idxs EXCEPT ![i + 1] = <<s, e>>]

\* the loop over basket.raw["answers"] from answer i on, for one sample;
\* [labels, error_in_answer, raised]
RECURSIVE AnswerLoop(_, _, _, _)
AnswerLoop(basket, sample, i, label_idxs) ==
    IF i >= Len(basket.raw.answers)
    THEN [labels |-> label_idxs, error_in_answer |-> FALSE, raised |-> "none"]
    ELSE
    LET answer == basket.raw.answers[i + 1]
        answer_len_c == Len(answer.text)
        answer_start_c == answer.answer_start
        answer_end_c == answer_start_c + answer_len_c - 1
        answer_start_t ==
            offset_to_token_idx_vecorized(basket.raw.document_offsets, answer_start_c)
                - sample.tokenized.passage_start_t
        answer_end_t ==
            offset_to_token_idx_vecorized(basket.raw.document_offsets, answer_end_c)
                - sample.tokenized.passage_start_t
        question_len_t == Len(sample.tokenized.question_tokens)
        passage_len_t == Len(sample.tokenized.passage_tokens)
        written ==
            IF passage_len_t > answer_start_t /\ answer_start_t >= 0
                 /\ passage_len_t >= answer_end_t /\ answer_end_t >= 0
            THEN SetRow(label_idxs, i,
                        SeqTwoStart(question_len_t) + answer_start_t,
                        SeqTwoStart(question_len_t) + answer_end_t)
            ELSE SetRow(label_idxs, i, 0, 0)
        doc_text == basket.raw.document_text
        answer_indices == PySlice(doc_text, answer_start_c, answer_end_c + 1)
        answer_text == answer.text
    IN  IF i >= max_answers
        THEN \* label_idxs[i] is outside the (max_answers, 2) array
             [labels |-> label_idxs, error_in_answer |-> FALSE, raised |-> "IndexError"]
        ELSE IF answer_start_t < 0 \/ answer_end_t >= passage_len_t
        THEN AnswerLoop(basket, sample, i + 1, written)
        ELSE IF ~IsSubstring(answer_text, doc_text)
                 \/ Strip(answer_indices) # Strip(answer_text)
        THEN [labels |-> SetRow(written, i, -100, -100),
              error_in_answer |-> TRUE, raised |-> "none"]
        ELSE AnswerLoop(basket, sample, i + 1, written)

\* the loop over basket.samples from sample num on; [samples, raised]
RECURSIVE SampleLoop(_, _, _, _)
SampleLoop(basket, num, error_in_answer, acc) ==
    IF num > Len(basket.samples.val)
    THEN [samples |-> acc, raised |-> "none"]
    ELSE
    LET sample == basket.samples.val[num]
        label_idxs == Repeat(<<-1, -1>>, max_answers)
        done == IF error_in_answer \/ Len(basket.raw.answers) = 0
                THEN [labels |-> NoAnswerLabels(label_idxs),
                      error_in_answer |-> FALSE, raised |-> "none"]
                ELSE AnswerLoop(basket, sample, 0, label_idxs)
    IN  IF done.raised # "none"
        THEN [samples |-> acc, raised |-> done.raised]
        ELSE SampleLoop(basket, num + 1, error_in_answer \/ done.error_in_answer,
                 Append(acc, [sample EXCEPT
                     !.tokenized = DictSet(sample.tokenized, "labels", done.labels)]))

ConvertBasket(basket) ==
    IF ~basket.samples.some
    THEN \* enumerate(None)
         [basket |-> basket, raised |-> "TypeError"]
    ELSE LET r == SampleLoop(basket, 1, FALSE, <<>>)
         IN  [basket |-> [basket EXCEPT !.samples = Some(r.samples)],
              raised |-> r.raised]

\* the first exception raised over a list of per-basket results, or "none"
FirstRaised(results) ==
    IF \A b \in 1..Len(results) : results[b].raised = "none"
    THEN "none"
    ELSE results[CHOOSE b \in 1..Len(results) : results[b].raised # "none"
                    /\ \A j \in 1..(b - 1) : results[j].raised = "none"].raised

\* [baskets, raised]
_convert_answers(bs) ==
    LET results == [b \in 1..Len(bs) |-> ConvertBasket(bs[b])]
    IN  [baskets |-> [b \in 1..Len(bs) |-> results[b].basket],
         raised |-> FirstRaised(results)]

----------------------------------------------------------------------------
(* SquadProcessor._passages_to_paddle_features                             *)

\* faulty variant of PadLen: one padding position short
PadLenShort(joined) == max_seq_len - Len(joined) - 1

\* number of padding positions appended to a joined sequence
PadLen(joined) == max_seq_len - Len(joined)

\* faulty variant of NoSentinel: the sentinel is not looked for
NoSentinelUnchecked(labels) == Len(labels) >= 0

\* np.all(labels > -99)
NoSentinel(labels) ==
    \A r \in 1..Len(labels) : labels[r][1] > -99 /\ labels[r][2] > -99

\* faulty variant of FeaturesOfSample: the span mask also admits the closing
\* special tokens
FeaturesOfSampleWideMask(sample, rb) ==
    LET question_tokens == sample.tokenized.question_tokens
        passage_tokens == sample.tokenized.passage_tokens
        question_len_t == Len(question_tokens)
        passage_len_t == Len(passage_tokens)
        joined == build_inputs_with_special_tokens(tokenizer, question_tokens,
                                                   passage_tokens)
        zero_padding == Repeat(0, PadLen(joined))
        mask == Repeat(1, sp_toks_start) \o Repeat(0, question_len_t)
                  \o Repeat(0, sp_toks_mid) \o Repeat(1, passage_len_t)
                  \o Repeat(1, sp_toks_end)
    IN  IF rb \/ (Len(DictGet(sample.tokenized, "labels", <<>>)) = max_answers
                  /\ NoSentinel(sample.tokenized.labels))
        THEN Some(<<[input_ids |-> joined \o Repeat(tokenizer.pad, PadLen(joined)),
                     padding_mask |-> Repeat(1, Len(joined)) \o zero_padding,
                     segment_ids |->
                        create_token_type_ids_from_sequences(
                            tokenizer, question_tokens, passage_tokens)
                            \o zero_padding,
                     passage_start_t |-> sample.tokenized.passage_start_t,
                     start_of_word |->
                        Repeat(0, sp_toks_start)
                            \o sample.tokenized.question_start_of_word
                            \o Repeat(0, sp_toks_mid)
                            \o sample.tokenized.passage_start_of_word
                            \o Repeat(0, sp_toks_end) \o zero_padding,
                     labels |-> DictGet(sample.tokenized, "labels", <<>>),
                     id |-> sample.id,
                     seq_2_start_t |-> SeqTwoStart(question_len_t),
                     span_mask |-> mask \o zero_padding]>>)
        ELSE None

\* the feature row of one sample when its checks pass, None otherwise
FeaturesOfSample(sample, rb) ==
    LET question_tokens == sample.tokenized.question_tokens
        question_start_of_word == sample.tokenized.question_start_of_word
        question_len_t == Len(question_tokens)
        passage_start_t == sample.tokenized.passage_start_t
        passage_tokens == sample.tokenized.passage_tokens
        passage_start_of_word == sample.tokenized.passage_start_of_word
        passage_len_t == Len(passage_tokens)
        sample_id == sample.id          \* [int(x) for x in sample.id.split("-")]
        joined == build_inputs_with_special_tokens(tokenizer, question_tokens,
                                                   passage_tokens)
        segments == create_token_type_ids_from_sequences(tokenizer, question_tokens,
                                                         passage_tokens)
        seq_2_start_t == SeqTwoStart(question_len_t)
        sow == Repeat(0, sp_toks_start) \o question_start_of_word
                 \o Repeat(0, sp_toks_mid) \o passage_start_of_word
                 \o Repeat(0, sp_toks_end)
        mask == Repeat(1, sp_toks_start) \o Repeat(0, question_len_t)
                  \o Repeat(0, sp_toks_mid) \o Repeat(1, passage_len_t)
                  \o Repeat(0, sp_toks_end)
        padding == Repeat(tokenizer.pad, PadLen(joined))
        zero_padding == Repeat(0, PadLen(joined))
        input_ids == joined \o padding
        padding_mask == Repeat(1, Len(joined)) \o zero_padding
        segment_ids == segments \o zero_padding
        start_of_word == sow \o zero_padding
        span_mask == mask \o zero_padding
        len_check == /\ Len(input_ids) = Len(padding_mask)
                     /\ Len(padding_mask) = Len(segment_ids)
                     /\ Len(segment_ids) = Len(start_of_word)
                     /\ Len(start_of_word) = Len(span_mask)
        id_check == Len(sample_id) = 3
        label_check == rb \/ Len(DictGet(sample.tokenized, "labels", <<>>)) = max_answers
        label_check2 == rb \/ NoSentinel(sample.tokenized.labels)
    IN  IF len_check /\ id_check /\ label_check /\ label_check2
        THEN Some(<<[input_ids |-> input_ids,
                     padding_mask |-> padding_mask,
                     segment_ids |-> segment_ids,
                     passage_start_t |-> passage_start_t,
                     start_of_word |-> start_of_word,
                     labels |-> DictGet(sample.tokenized, "labels", <<>>),
                     id |-> sample_id,
                     seq_2_start_t |-> seq_2_start_t,
                     span_mask |-> span_mask]>>)
        ELSE None

FeaturizeBasket(basket, rb) ==
    IF ~basket.samples.some
    THEN \* enumerate(None)
         [basket |-> basket, raised |-> "TypeError"]
    ELSE [basket |-> [basket EXCEPT !.samples = Some(
                [k \in 1..Len(basket.samples.val) |->
                    [basket.samples.val[k] EXCEPT
                        !.features = FeaturesOfSample(basket.samples.val[k], rb)]])],
          raised |-> "none"]

\* ids added to self.problematic_sample_ids: those of the samples without
\* features, up to the first basket that raises
ProblematicOf(results) ==
    UNION {{results[b].basket.samples.val[k].id :
                k \in {k \in 1..Len(results[b].basket.samples.val) :
                          ~results[b].basket.samples.val[k].features.some}} :
           b \in {b \in 1..Len(results) : \A j \in 1..b : results[j].raised = "none"}}

\* [baskets, problematic, raised]
_passages_to_paddle_features(bs, rb) ==
    LET results == [b \in 1..Len(bs) |-> FeaturizeBasket(bs[b], rb)]
    IN  [baskets |-> [b \in 1..Len(bs) |-> results[b].basket],
         problematic |-> ProblematicOf(results),
         raised |-> FirstRaised(results)]

----------------------------------------------------------------------------
(* SquadProcessor._create_dataset                                          *)

RECURSIVE FeaturesFlat(_)
FeaturesFlat(bs) ==
    IF Len(bs) = 0 THEN <<>>
    ELSE (IF _check_sample_features(Head(bs))
          THEN Flatten([k \in 1..Len(Head(bs).samples.val) |->
                           Head(bs).samples.val[k].features.val])
          ELSE <<>>) \o FeaturesFlat(Tail(bs))

\* [dataset, baskets]: the flat feature list handed to the dataset sink and
\* the baskets left after the incomplete ones are removed
_create_dataset(bs) ==
    [dataset |-> FeaturesFlat(bs),
     baskets |-> SelectSeq(bs, _check_sample_features)]

----------------------------------------------------------------------------
(* TextSimilarityProcessor._convert_contexts, _create_dataset              *)

\* list(filter(lambda x: x["label"] == label, passages))
WithLabel(passages, label) ==
    LET Is(x) == x.label = label
    IN  SelectSeq(passages, Is)

\* the lists random.shuffle can leave in place of list
Shuffles(list) ==
    {[i \in 1..Len(list) |-> list[f[i]]] : f \in Permutations(1..Len(list))}

\* the values of list[:n] after `if shuffle: random.shuffle(list)`
Selections(list, shuffle, n) ==
    {PySlice(l, 0, n) : l \in (IF shuffle THEN Shuffles(list) ELSE {list})}

\* passage.get("title", None)
TitleOf(passage) == IF "title" \in DOMAIN passage THEN Some(passage.title) ELSE None

_combine_title_context(titles, texts) ==
    [i \in 1..Min(Len(titles), Len(texts)) |->
        CtxPair(IF titles[i].some THEN titles[i].val ELSE <<>>, texts[i])]

\* faulty variant of NullFeatures: the exception is swallowed and the sample
\* keeps its features
KeepFeatures(basket) == basket

\* basket.samples[0].features = None
NullFeatures(basket) ==
    [basket EXCEPT !.samples = Some(<<[basket.samples.val[1] EXCEPT !.features = None]>>)]

\* all_ctx before the empty pairs are appended
AllCtxUnpadded(positive_context, hard_negative_context) ==
    IF embed_title
    THEN _combine_title_context([i \in 1..Len(positive_context) |->
                                     TitleOf(positive_context[i])],
                                [i \in 1..Len(positive_context) |->
                                     positive_context[i].text])
         \o _combine_title_context([i \in 1..Len(hard_negative_context) |->
                                        TitleOf(hard_negative_context[i])],
                                   [i \in 1..Len(hard_negative_context) |->
                                        hard_negative_context[i].text])
    ELSE [i \in 1..Len(positive_context) |-> CtxText(positive_context[i].text)]
         \o [i \in 1..Len(hard_negative_context) |->
                CtxText(hard_negative_context[i].text)]

\* all_ctx: the selected passages, padded with ("", "") to the target length
AllCtx(positive_context, hard_negative_context) ==
    LET ctx == AllCtxUnpadded(positive_context, hard_negative_context)
    IN  ctx \o Repeat(CtxPair(<<>>, <<>>),
                      (num_positives + num_hard_negatives) - Len(ctx))

\* the body of the try block for the passages selected; any exception
\* leaves the sample with features = None
ConvertSelected(basket, positive_context, hard_negative_context) ==
    LET selected == positive_context \o hard_negative_context
        all_ctx == AllCtx(positive_context, hard_negative_context)
        ctx_inputs == TokenizerCall(passage_tokenizer, all_ctx[1])
        sample == basket.samples.val[1]
        described ==
            [sample EXCEPT
                !.clear_text = DictSet(sample.clear_text, "passages", selected),
                !.tokenized = DictSet(sample.tokenized, "passages_tokens",
                                      ctx_inputs.input_ids)]
    IN  IF \E i \in 1..Len(selected) : "text" \notin DOMAIN selected[i]
        THEN NullFeatures(basket)                       \* KeyError
        ELSE IF Len(all_ctx) = 0
        THEN NullFeatures(basket)                       \* IndexError
        ELSE IF ~sample.features.some
        THEN [basket EXCEPT !.samples =                 \* TypeError
                 Some(<<[described EXCEPT !.features = None]>>)]
        ELSE [basket EXCEPT !.samples =
                 Some(<<[described EXCEPT !.features =
                     Some(<<DictSet(DictSet(sample.features.val[1],
                                            "passage_input_ids", ctx_inputs.input_ids),
                                    "passage_segment_ids", ctx_inputs.token_type_ids)>>)]>>)]

\* the baskets one pass of the loop of _convert_contexts can leave
ConvertContext(basket) ==
    IF "passages" \notin DOMAIN basket.raw
    THEN {basket}
    ELSE IF \E i \in 1..Len(basket.raw.passages) :
                "label" \notin DOMAIN basket.raw.passages[i]
    THEN {NullFeatures(basket)}                         \* KeyError
    ELSE {ConvertSelected(basket, positive_context, hard_negative_context) :
            positive_context \in
                Selections(WithLabel(basket.raw.passages, "positive"),
                           shuffle_positives, num_positives),
            hard_negative_context \in
                Selections(WithLabel(basket.raw.passages, "hard_negative"),
                           shuffle_negatives, num_hard_negatives)}

\* the lists of baskets _convert_contexts can return
RECURSIVE _convert_contexts(_)
_convert_contexts(bs) ==
    IF Len(bs) = 0 THEN {<<>>}
    ELSE {<<h>> \o t : h \in ConvertContext(Head(bs)), t \in _convert_contexts(Tail(bs))}

\* faulty variant of ts_create_dataset: dropped baskets are not recorded
CreateDatasetUnrecorded(bs) ==
    [dataset |-> FeaturesFlat(bs),
     problematic_ids |-> {},
     baskets |-> SelectSeq(bs, _check_sample_features)]

\* TextSimilarityProcessor._create_dataset
ts_create_dataset(bs) ==
    [dataset |-> FeaturesFlat(bs),
     problematic_ids |->
        {bs[b].id_internal : b \in {x \in 1..Len(bs) : ~_check_sample_features(bs[x])}},
     baskets |-> SelectSeq(bs, _check_sample_features)]

----------------------------------------------------------------------------
(* Inputs                                                                  *)

Q1 == <<"q">>                                \* a question of one token
Q3 == <<"q", " ", "q", " ", "q">>            \* a question of three tokens
ABC == <<"a", " ", "b", " ", "c">>           \* "a b c"
AB_C == <<"a", "b", " ", "c">>               \* "ab c"

ans(text, answer_start) == [text |-> text, answer_start |-> answer_start]
qa(question, answers) ==
    [question |-> question, id |-> "id", answers |-> answers, answer_type |-> "<None>"]
squad(context, qas) == [context |-> context, qas |-> qas]

\* records in the internal shape
NoAnswer == squad(ABC, <<qa(Q1, <<>>)>>)
WrongOffset == squad(ABC, <<qa(Q1, <<ans(<<"b">>, 4)>>)>>)
EmptyDoc == squad(<<>>, <<qa(Q1, <<>>)>>)
BlankDoc == squad(<<" ">>, <<qa(Q1, <<>>)>>)
\* an answer text that is not in the document, over all three tokens
Unfound == squad(ABC, <<qa(Q3, <<ans(<<"z", " ", "z", " ", "z">>, 0)>>)>>)
Records ==
    { NoAnswer, WrongOffset, EmptyDoc, BlankDoc, Unfound,
      squad(ABC, <<qa(Q1, <<ans(<<"a">>, 0)>>)>>),
      squad(ABC, <<qa(Q1, <<ans(<<"b", " ", "c">>, 2)>>)>>),
      squad(ABC, <<qa(Q1, <<ans(<<"z">>, 0), ans(<<"a">>, 0)>>)>>),
      squad(ABC, <<qa(Q1, <<ans(<<"a">>, 0), ans(<<"c">>, 4), ans(<<"b">>, 2)>>)>>),
      squad(AB_C, <<qa(Q3, <<ans(<<"b">>, 1)>>)>>),
      squad(ABC, <<qa(Q1, <<>>), qa(Q3, <<ans(<<" ", "b">>, 1)>>)>>) }

\* one record for every set of keys
AllKeys == {"context", "qas", "text", "questions", "id"}
ValueOfKey(k) ==
    CASE k = "context" -> <<ABC>>
      [] k = "qas" -> <<<<qa(Q1, <<ans(<<"c">>, 4)>>)>>>>
      [] k = "text" -> <<ABC>>
      [] k = "questions" -> <<<<Q1, Q3>>>>
      [] k = "id" -> <<"q1">>
ShapeRecords == {[k \in K |-> ValueOfKey(k)[1]] : K \in SUBSET AllKeys}

ListsOver(S, n) == UNION {[1..m -> S] : m \in 0..n}

\* the records that calls combine
PairRecords == {NoAnswer, WrongOffset}

\* the lists `dicts` a call is made with: lists of well-formed records, a
\* list whose second record has neither shape, a list that starts with a
\* document without text and one that starts with a document without
\* tokens, and one record of every kind
InputLists ==
    ListsOver(PairRecords, MaxDicts) \cup {<<NoAnswer, [text |-> ABC]>>}
        \cup {<<EmptyDoc, NoAnswer>>, <<BlankDoc, NoAnswer>>}
        \cup {<<r>> : r \in Records \cup ShapeRecords}

\* the `indices` a call is made with: absent, or, for a call with several
\* records, one id per record
IndicesFor(ds) ==
    IF Len(ds) >= 2 THEN {None, Some([i \in 1..Len(ds) |-> i])} ELSE {None}

\* the lists a processor is called with twice: a record that is kept, a
\* record that leaves a problematic sample id, and the two together
IdemLists == { <<NoAnswer>>, <<WrongOffset>>, <<WrongOffset, NoAnswer>>,
               <<squad(ABC, <<qa(Q1, <<ans(<<"a">>, 0)>>)>>)>> }

\* (doc_stride, max_seq_len, max_query_length) triples
Params == { <<1, 6, 2>>, <<4, 6, 2>>, <<2, 9, 2>> }

\* constructor arguments
ArgsOver(triples) ==
    { [tokenizer |-> t, doc_stride |-> p[1], max_seq_len |-> p[2],
       max_query_length |-> p[3], max_answers |-> IF p[2] = 384 THEN 6 ELSE 2] :
      t \in Tokenizers, p \in triples }
CtorArgs == ArgsOver({ <<1, 6, 2>>, <<4, 6, 2>> })

\* parameter triples around the documented configuration
\* (doc_stride=128, max_seq_len=384, max_query_length=64)
WideParams ==
    Params \cup
    { <<s, 384, q>> : s \in {1, 127, 128, 300, 319, 320, 384}, q \in {0, 64, 256} }
WideCtorArgs == ArgsOver(WideParams)

----------------------------------------------------------------------------
(* Inputs of the retrieval pipeline                                        *)

positive(title, text) == [title |-> title, text |-> text, label |-> "positive"]
hard_negative(title, text) == [title |-> title, text |-> text, label |-> "hard_negative"]
retrieval(query, passages) == [query |-> query, passages |-> passages]

T1 == <<"t">>                                \* a title
P1 == positive(T1, <<"a">>)
P2 == positive(T1, <<"b">>)
P3 == positive(T1, <<"c">>)
H1 == hard_negative(T1, <<"a", " ", "a">>)
H2 == [text |-> <<"a", " ", "b">>, label |-> "hard_negative"]     \* no title
H3 == hard_negative(T1, <<"a", " ", "c">>)
H4 == hard_negative(T1, <<"b", " ", "a">>)
H5 == hard_negative(T1, <<"b", " ", "b">>)

\* three positives and five hard negatives
ThreeFive == retrieval(<<"q", "?">>, <<P1, P2, P3, H1, H2, H3, H4, H5>>)
\* the groups interleaved
Mixed == retrieval(<<"q">>, <<H1, P1, H2>>)
\* fewer passages than asked for
OnePositive == retrieval(<<"q", " ", "q">>, <<P1>>)
\* queries: empty, blank, a lone question mark
EmptyQuery == retrieval(<<>>, <<P1, H1>>)
BlankQuery == retrieval(<<" ">>, <<P1, H1>>)
MarkQuery == retrieval(<<"?">>, <<P1, H1>>)
\* passages without text, without label; records without query, without passages
NoText == retrieval(<<"q">>, <<[title |-> T1, label |-> "positive"], H1>>)
NoLabel == retrieval(<<"q">>, <<[title |-> T1, text |-> <<"a">>], H1>>)
NoQuery == [passages |-> <<P1, H1>>]
NoPassages == [query |-> <<"q">>]

TsRecords ==
    {ThreeFive, Mixed, OnePositive, EmptyQuery, BlankQuery, MarkQuery, NoText, NoLabel,
     NoQuery, NoPassages}

\* the records that retrieval calls combine
TsPairRecords == {Mixed, EmptyQuery, BlankQuery, NoText}

TsInputLists ==
    ListsOver(TsPairRecords, MaxDicts) \cup {<<r>> : r \in TsRecords}

\* the `indices` of a retrieval call: absent, empty, one distinct id per
\* record, the same id for every record, or one id too few
TsIndicesFor(ds) ==
    {None, Some(<<>>), Some([i \in 1..Len(ds) |-> 10 + i])}
        \cup (IF Len(ds) >= 2
              THEN {Some([i \in 1..Len(ds) |-> 7]),
                    Some([i \in 1..(Len(ds) - 1) |-> 10 + i])}
              ELSE {})

TextSimilarityName ==
    <<"t", "e", "x", "t", "_", "s", "i", "m", "i", "l", "a", "r", "i", "t", "y">>

ts_args(qt, et, np, nh, sn, sp) ==
    [query_tokenizer |-> qt, passage_tokenizer |-> WithSpecialTokens,
     embed_title |-> et, num_positives |-> np, num_hard_negatives |-> nh,
     shuffle_negatives |-> sn, shuffle_positives |-> sp,
     metric |-> None, label_list |-> PyNone]

\* the arguments TextSimilarityProcessor is constructed with
TsCtorArgs ==
    { ts_args(WithSpecialTokens, TRUE, 1, 2, TRUE, FALSE),
      ts_args(Plain, TRUE, 1, 2, TRUE, FALSE),
      ts_args(WithSpecialTokens, FALSE, 1, 2, FALSE, FALSE),
      ts_args(WithSpecialTokens, TRUE, 0, 0, TRUE, FALSE),
      ts_args(WithSpecialTokens, TRUE, 2, 1, TRUE, TRUE),
      ts_args(Plain, FALSE, 1, 1, FALSE, FALSE) }

\* construction with a metric: the default task is added
TaskCtorArgs ==
    {[ts_args(WithSpecialTokens, TRUE, 1, 1, TRUE, FALSE)
         EXCEPT !.metric = m, !.label_list = l] :
        m \in {None, Some("acc")},
        l \in {PyNone, PyList(<<"hard_negative", "positive">>)}}

\* the arguments add_task is called with
TaskNames == {<<"t">>, <<"u">>}
Metrics == {"acc", "f1_macro"}
LabelLists == {PyList(<<"0", "1">>), PyList(<<>>), PyTuple(<<"0", "1">>), PyNone}
LabelNames == {None, Some(<<"l">>)}

----------------------------------------------------------------------------
(* Actions                                                                 *)

noCall == /\ dicts = <<>> /\ indices = None /\ return_baskets = FALSE
          /\ pre_baskets = <<>> /\ baskets = <<>> /\ returned = None

Init ==
    /\ pc = "new"
    /\ init_args = None
    /\ tokenizer = BertLike
    /\ max_seq_len = 0 /\ doc_stride = 0 /\ max_query_length = 0 /\ max_answers = 0
    /\ sp_toks_start = 0 /\ sp_toks_mid = 0 /\ sp_toks_end = 0
    /\ problematic_sample_ids = {}
    /\ noCall
    /\ raised = "none"
    /\ n_calls = 0
    /\ last_call = None
    /\ ts_pc = "new"
    /\ query_tokenizer = WithSpecialTokens /\ passage_tokenizer = WithSpecialTokens
    /\ embed_title = TRUE
    /\ num_hard_negatives = 0 /\ num_positives = 0
    /\ shuffle_negatives = FALSE /\ shuffle_positives = FALSE
    /\ tasks = <<>>
    /\ task_args = None
    /\ ts_dicts = <<>> /\ ts_indices = None /\ ts_return_baskets = FALSE
    /\ ts_baskets = None /\ ts_returned = None
    /\ ts_raised = "none"
    /\ ts_calls = 0

\* SquadProcessor.__init__
Construct(a) ==
    /\ pc \in {"new", "ctor_failed"}
    /\ init_args' = Some(a)
    /\ IF ~StrideCheck(a.doc_stride, a.max_seq_len, a.max_query_length)
       THEN /\ pc' = "ctor_failed"
            /\ raised' = "AssertionError"
            /\ UNCHANGED <<tokenizer, max_seq_len, doc_stride, max_query_length,
                           max_answers, sp_toks_start, sp_toks_mid, sp_toks_end,
                           problematic_sample_ids>>
       ELSE LET sp == InitializeSpecialTokensCount(a.tokenizer)
            IN  /\ doc_stride' = a.doc_stride
                /\ max_query_length' = a.max_query_length
                /\ max_answers' = a.max_answers
                /\ tokenizer' = a.tokenizer
                /\ max_seq_len' = a.max_seq_len
                /\ problematic_sample_ids' = {}
                /\ sp_toks_start' = sp.sp_toks_start
                /\ sp_toks_mid' = sp.sp_toks_mid
                /\ sp_toks_end' = sp.sp_toks_end
                /\ pc' = "idle"
                /\ raised' = "none"
    /\ UNCHANGED <<argVars, pre_baskets, baskets, returned, n_calls>>
    /\ UNCHANGED <<last_call, tsVars>>

\* the caller changes the parameters of an initialized processor
SetParams(p) ==
    /\ pc = "idle"
    /\ <<doc_stride, max_seq_len, max_query_length>> # p
    /\ doc_stride' = p[1]
    /\ max_seq_len' = p[2]
    /\ max_query_length' = p[3]
    /\ UNCHANGED <<pc, init_args, tokenizer, max_answers, sp_toks_start, sp_toks_mid, sp_toks_end,
                   problematic_sample_ids, argVars, pre_baskets, baskets, returned,
                   raised, n_calls>>
    /\ UNCHANGED <<last_call, tsVars>>

\* dataset_from_dicts, entry and normalization of every record
Normalize(ds, idx, rb) ==
    /\ pc = "idle"
    /\ n_calls < MaxCalls
    /\ n_calls' = n_calls + 1
    /\ dicts' = ds /\ indices' = idx /\ return_baskets' = rb
    /\ LET results == [i \in 1..Len(ds) |-> convert_qa_input_dict(ds[i])]
       IN  IF FirstRaised(results) # "none"
           THEN /\ pc' = "raised"
                /\ raised' = FirstRaised(results)
                /\ pre_baskets' = <<>>
           ELSE /\ pc' = "normalized"
                /\ raised' = "none"
                /\ pre_baskets' = [i \in 1..Len(ds) |-> results[i].val]
    /\ UNCHANGED <<selfVars, problematic_sample_ids, baskets, returned>>
    /\ UNCHANGED <<last_call, tsVars>>

\* dataset_from_dicts, step 1
Tokenize ==
    /\ pc = "normalized"
    /\ baskets' = tokenize_batch_question_answering(pre_baskets, indices)
    /\ pc' = "tokenized"
    /\ UNCHANGED <<selfVars, problematic_sample_ids, argVars, pre_baskets, returned,
                   raised, n_calls>>
    /\ UNCHANGED <<last_call, tsVars>>

SplitDocsIntoPassages ==
    /\ pc = "tokenized"
    /\ baskets' = _split_docs_into_passages(baskets)
    /\ pc' = "split"
    /\ UNCHANGED <<selfVars, problematic_sample_ids, argVars, pre_baskets, returned,
                   raised, n_calls>>
    /\ UNCHANGED <<last_call, tsVars>>

ConvertAnswers ==
    /\ pc = "split"
    /\ ~return_baskets
    /\ LET r == _convert_answers(baskets)
       IN  IF r.raised # "none"
           THEN pc' = "raised" /\ raised' = r.raised /\ baskets' = <<>>
           ELSE pc' = "labelled" /\ raised' = "none" /\ baskets' = r.baskets
    /\ UNCHANGED <<selfVars, problematic_sample_ids, argVars, pre_baskets, returned,
                   n_calls>>
    /\ UNCHANGED <<last_call, tsVars>>

PassagesToPaddleFeatures ==
    /\ \/ pc = "labelled"
       \/ pc = "split" /\ return_baskets
    /\ LET r == _passages_to_paddle_features(baskets, return_baskets)
       IN  /\ problematic_sample_ids' = problematic_sample_ids \cup r.problematic
           /\ IF r.raised # "none"
              THEN pc' = "raised" /\ raised' = r.raised /\ baskets' = <<>>
              ELSE pc' = "featurized" /\ raised' = "none" /\ baskets' = r.baskets
    /\ UNCHANGED <<selfVars, argVars, pre_baskets, returned, n_calls>>
    /\ UNCHANGED <<last_call, tsVars>>

\* _create_dataset and the return of dataset_from_dicts
CreateDataset ==
    /\ pc = "featurized"
    /\ LET r == _create_dataset(baskets)
       IN  /\ baskets' = r.baskets
           /\ returned' = Some([dataset |-> r.dataset,
                                problematic_sample_ids |-> problematic_sample_ids,
                                baskets |-> IF return_baskets THEN Some(r.baskets)
                                            ELSE None])
    /\ pc' = "done"
    /\ UNCHANGED <<selfVars, problematic_sample_ids, argVars, pre_baskets, raised,
                   n_calls>>
    /\ UNCHANGED <<last_call, tsVars>>

\* the caller has taken the result (or the exception) of the call
Finish ==
    /\ pc \in {"done", "raised"}
    /\ pc' = "idle"
    /\ dicts' = <<>> /\ indices' = None /\ return_baskets' = FALSE
    /\ pre_baskets' = <<>> /\ baskets' = <<>> /\ returned' = None
    /\ raised' = "none"
    /\ UNCHANGED <<selfVars, problematic_sample_ids, n_calls>>
    /\ UNCHANGED <<last_call, tsVars>>

\* the caller has taken the result of the call and keeps the arguments and
\* the feature rows to compare them with those of the next call
FinishObserved ==
    /\ pc = "done"
    /\ last_call' = Some([dicts |-> dicts, indices |-> indices,
                          return_baskets |-> return_baskets,
                          dataset |-> returned.val.dataset])
    /\ pc' = "idle"
    /\ dicts' = <<>> /\ indices' = None /\ return_baskets' = FALSE
    /\ pre_baskets' = <<>> /\ baskets' = <<>> /\ returned' = None
    /\ raised' = "none"
    /\ UNCHANGED <<selfVars, problematic_sample_ids, n_calls>>
    /\ UNCHANGED tsVars

Next ==
    \/ \E a \in CtorArgs : Construct(a)
    \/ \E p \in Params : SetParams(p)
    \/ \E ds \in InputLists : \E idx \in IndicesFor(ds) : \E rb \in BOOLEAN :
           Normalize(ds, idx, rb)
    \/ Tokenize
    \/ SplitDocsIntoPassages
    \/ ConvertAnswers
    \/ PassagesToPaddleFeatures
    \/ CreateDataset
    \/ Finish

Spec == Init /\ [][Next]_vars

\* construction and re-parameterization alone, over a wide range of parameters
CtorNext ==
    \/ \E a \in WideCtorArgs : Construct(a)
    \/ \E p \in WideParams : SetParams(p)

CtorSpec == Init /\ [][CtorNext]_vars

\* calls repeated on one processor whose parameters are left alone
IdemNext ==
    \/ \E a \in CtorArgs : Construct(a)
    \/ \E ds \in IdemLists : \E idx \in IndicesFor(ds) : \E rb \in BOOLEAN :
           Normalize(ds, idx, rb)
    \/ Tokenize
    \/ SplitDocsIntoPassages
    \/ ConvertAnswers
    \/ PassagesToPaddleFeatures
    \/ CreateDataset
    \/ Finish
    \/ FinishObserved

IdemSpec == Init /\ [][IdemNext]_vars

----------------------------------------------------------------------------
(* TextSimilarityProcessor: construction, add_task, dataset_from_dicts     *)

\* TextSimilarityProcessor.__init__
ConstructTs(a) ==
    /\ ts_pc \in {"new", "ctor_failed"}
    /\ LET r == IF a.metric.some
                THEN add_task(<<>>, TextSimilarityName, a.metric.val, a.label_list,
                              Some(<<"l", "a", "b", "e", "l">>),
                              Some(TextSimilarityName))
                ELSE [raised |-> "none", tasks |-> <<>>]
       IN  IF r.raised # "none"
           THEN /\ ts_pc' = "ctor_failed"
                /\ ts_raised' = r.raised
                /\ UNCHANGED <<tsSelfVars, tasks>>
           ELSE /\ ts_pc' = "idle"
                /\ ts_raised' = "none"
                /\ query_tokenizer' = a.query_tokenizer
                /\ passage_tokenizer' = a.passage_tokenizer
                /\ embed_title' = a.embed_title
                /\ num_hard_negatives' = a.num_hard_negatives
                /\ num_positives' = a.num_positives
                /\ shuffle_negatives' = a.shuffle_negatives
                /\ shuffle_positives' = a.shuffle_positives
                /\ tasks' = r.tasks
    /\ UNCHANGED <<task_args, tsArgVars, ts_baskets, ts_returned, ts_calls>>
    /\ UNCHANGED qaVars

\* Processor.add_task, called on the constructed processor
AddTask(name, metric, label_list, label_name) ==
    /\ ts_pc = "idle"
    /\ task_args' = Some([name |-> name, metric |-> metric, label_list |-> label_list,
                          label_name |-> label_name])
    /\ LET r == add_task(tasks, name, metric, label_list, label_name, None)
       IN  tasks' = r.tasks /\ ts_raised' = r.raised
    /\ UNCHANGED <<ts_pc, tsSelfVars, tsArgVars, ts_baskets, ts_returned, ts_calls>>
    /\ UNCHANGED qaVars

\* dataset_from_dicts, entry and _fill_baskets
FillBaskets(ds, idx, rb) ==
    /\ ts_pc = "idle"
    /\ ts_calls < MaxCalls
    /\ ts_calls' = ts_calls + 1
    /\ ts_dicts' = ds /\ ts_indices' = idx /\ ts_return_baskets' = rb
    /\ ts_baskets' = Some(_fill_baskets(ds, idx))
    /\ ts_returned' = None
    /\ ts_raised' = "none"
    /\ ts_pc' = "filled"
    /\ UNCHANGED <<tsSelfVars, tasks, task_args>>
    /\ UNCHANGED qaVars

ConvertQueries ==
    /\ ts_pc = "filled"
    /\ ts_baskets' = _convert_queries(ts_baskets.val)
    /\ ts_pc' = "queries"
    /\ UNCHANGED <<tsSelfVars, tasks, task_args, tsArgVars, ts_returned, ts_raised,
                   ts_calls>>
    /\ UNCHANGED qaVars

\* `for basket in baskets` raises TypeError when _convert_queries returned None
ConvertContexts ==
    /\ ts_pc = "queries"
    /\ IF ~ts_baskets.some
       THEN ts_pc' = "raised" /\ ts_raised' = "TypeError" /\ ts_baskets' = None
       ELSE /\ \E out \in _convert_contexts(ts_baskets.val) : ts_baskets' = Some(out)
            /\ ts_pc' = "contexts"
            /\ ts_raised' = "none"
    /\ UNCHANGED <<tsSelfVars, tasks, task_args, tsArgVars, ts_returned, ts_calls>>
    /\ UNCHANGED qaVars

\* _create_dataset and the return of dataset_from_dicts
TsCreateDataset ==
    /\ ts_pc = "contexts"
    /\ LET r == ts_create_dataset(ts_baskets.val)
       IN  /\ ts_baskets' = Some(r.baskets)
           /\ ts_returned' = Some([dataset |-> r.dataset,
                                   problematic_ids |-> r.problematic_ids,
                                   baskets |-> IF ts_return_baskets THEN Some(r.baskets)
                                               ELSE None])
    /\ ts_pc' = "done"
    /\ UNCHANGED <<tsSelfVars, tasks, task_args, tsArgVars, ts_raised, ts_calls>>
    /\ UNCHANGED qaVars

\* the caller has taken the result (or the exception) of the retrieval call
TsFinish ==
    /\ ts_pc \in {"done", "raised"}
    /\ ts_pc' = "idle"
    /\ ts_dicts' = <<>> /\ ts_indices' = None /\ ts_return_baskets' = FALSE
    /\ ts_baskets' = None /\ ts_returned' = None
    /\ ts_raised' = "none"
    /\ UNCHANGED <<tsSelfVars, tasks, task_args, ts_calls>>
    /\ UNCHANGED qaVars

TsNext ==
    \/ \E a \in TsCtorArgs : ConstructTs(a)
    \/ \E ds \in TsInputLists : \E idx \in TsIndicesFor(ds) : \E rb \in BOOLEAN :
           FillBaskets(ds, idx, rb)
    \/ ConvertQueries
    \/ ConvertContexts
    \/ TsCreateDataset
    \/ TsFinish

TsSpec == Init /\ [][TsNext]_vars

\* construction with the default task, and add_task
TaskNext ==
    \/ \E a \in TaskCtorArgs : ConstructTs(a)
    \/ \E name \in TaskNames : \E metric \in Metrics : \E label_list \in LabelLists :
           \E label_name \in LabelNames : AddTask(name, metric, label_list, label_name)

TaskSpec == Init /\ [][TaskNext]_vars

----------------------------------------------------------------------------
(* Properties                                                              *)

IsTriple(a, stride, seq_len, query_length) ==
    a.doc_stride = stride /\ a.max_seq_len = seq_len /\ a.max_query_length = query_length

\* a dataset_from_dicts call is past the normalization of its records
Running == pc \in {"normalized", "tokenized", "split", "labelled", "featurized", "done"}
\* a dataset_from_dicts call has been entered and not yet handed back
InCall == Running \/ pc = "raised"

\* the samples of all baskets, as <<basket index, sample index>>
SamplePositions ==
    UNION {{<<b, k>> : k \in 1..Len(baskets[b].samples.val)} : b \in 1..Len(baskets)}
SampleAt(bk) == baskets[bk[1]].samples.val[bk[2]]

\* C1 (as stated): constructing a SquadProcessor with doc_stride=128,
\* max_seq_len=384, max_query_length=64 is accepted, and constructing one with
\* doc_stride=300 and the same max_seq_len and max_query_length raises a
\* configuration error.
C1_AsStated ==
    init_args.some =>
        /\ IsTriple(init_args.val, 128, 384, 64) => pc # "ctor_failed"
        /\ IsTriple(init_args.val, 300, 384, 64) =>
               pc = "ctor_failed" /\ raised = "AssertionError"

\* C1 (amended): construction with doc_stride=128, max_seq_len=384,
\* max_query_length=64 is accepted, and so is doc_stride=300 (300 < 384 - 64);
\* construction raises a configuration error exactly when
\* doc_stride >= max_seq_len - max_query_length, as with doc_stride=320.
C1_ConstructionCheck ==
    init_args.some =>
        /\ IsTriple(init_args.val, 128, 384, 64) => pc = "idle" /\ raised = "none"
        /\ IsTriple(init_args.val, 300, 384, 64) => pc = "idle" /\ raised = "none"
        /\ IsTriple(init_args.val, 320, 384, 64) =>
               pc = "ctor_failed" /\ raised = "AssertionError"
        /\ (pc = "ctor_failed") <=>
               (init_args.val.doc_stride >=
                    init_args.val.max_seq_len - init_args.val.max_query_length)
        /\ pc = "ctor_failed" => raised = "AssertionError"

C1_Witness ==
    /\ init_args.some
    /\ IsTriple(init_args.val, 320, 384, 64)
    /\ pc = "ctor_failed"
    /\ raised = "AssertionError"

\* C2: no QA record is normalized, tokenized or windowed while
\* doc_stride >= max_seq_len - max_query_length: construction fails in that
\* case, and when the parameters of a constructed processor are changed so
\* that the inequality is violated, the next dataset_from_dicts call on a
\* non-empty input fails in convert_qa_input_dict before any basket exists.
C2_NoWorkUnderBadStride ==
    /\ init_args.some =>
          ((pc = "ctor_failed") <=>
               (init_args.val.doc_stride >=
                    init_args.val.max_seq_len - init_args.val.max_query_length))
    /\ (InCall /\ Len(dicts) > 0 /\ doc_stride >= max_seq_len - max_query_length) =>
          /\ pc = "raised"
          /\ raised = "AssertionError"
          /\ pre_baskets = <<>>
          /\ baskets = <<>>
          /\ ~returned.some

C2_Witness ==
    /\ pc = "raised"
    /\ raised = "AssertionError"
    /\ Len(dicts) > 0
    /\ doc_stride >= max_seq_len - max_query_length
    /\ init_args.some
    /\ init_args.val.doc_stride < init_args.val.max_seq_len - init_args.val.max_query_length

\* the passage of a sample lies within the token budget requested from the
\* windowing utility
WithinBudget(sample) ==
    Len(sample.tokenized.passage_tokens) <=
        max_seq_len - Len(sample.tokenized.question_tokens)
            - (sp_toks_start + sp_toks_mid + sp_toks_end)

FiveArrays(row) ==
    <<row.input_ids, row.padding_mask, row.segment_ids, row.start_of_word, row.span_mask>>

\* C3: for every QA sample that is given features by
\* _passages_to_paddle_features (any question length, any passage span within
\* the requested token budget, any special-token layout), input_ids,
\* padding_mask, segment_ids, start_of_word and span_mask all have length
\* exactly max_seq_len.
C3_FeatureLengths ==
    pc = "featurized" =>
        \A bk \in SamplePositions :
            (SampleAt(bk).features.some /\ WithinBudget(SampleAt(bk))) =>
                /\ Len(SampleAt(bk).features.val) = 1
                /\ \A a \in 1..5 :
                       Len(FiveArrays(SampleAt(bk).features.val[1])[a]) = max_seq_len

\* a sample with a truncated question and a passage shorter than its budget
\* has been given features under the four-special-token layout
C3_Witness ==
    /\ pc = "featurized"
    /\ sp_toks_mid = 2
    /\ \E bk \in SamplePositions :
           /\ SampleAt(bk).features.some
           /\ WithinBudget(SampleAt(bk))
           /\ Len(baskets[bk[1]].raw.question_tokens) > max_query_length
           /\ Len(SampleAt(bk).tokenized.passage_tokens) > 0
           /\ Len(SampleAt(bk).tokenized.question_tokens)
                + Len(SampleAt(bk).tokenized.passage_tokens) + 4 < max_seq_len

\* a basket is complete: its sample list is set and non-empty and every
\* sample has features
Complete(b) ==
    /\ b.samples.some
    /\ Len(b.samples.val) > 0
    /\ \A k \in 1..Len(b.samples.val) : b.samples.val[k].features.some

\* the feature rows of the samples of a list of complete baskets, in order
RowsOf(bs) ==
    Flatten([b \in 1..Len(bs) |->
                [k \in 1..Len(bs[b].samples.val) |-> bs[b].samples.val[k].features.val[1]]])

\* the first two components of a sample id or of the id of a feature row:
\* the id of its basket
BasketOf(id) == SubSeq(id, 1, 2)

\* C4: _create_dataset keeps a basket if and only if it is complete; the flat
\* feature list holds exactly the feature rows of the kept baskets, so no row
\* of a sample without features and no row of a valid sibling passage of such
\* a sample reaches the dataset, and the returned basket list holds no
\* incomplete basket.
C4_Finalization ==
    [][(pc = "featurized" /\ pc' = "done") =>
          /\ baskets' = SelectSeq(baskets, Complete)
          /\ returned'.some
          /\ returned'.val.dataset = RowsOf(SelectSeq(baskets, Complete))
          /\ \A b \in 1..Len(baskets) :
                 ~Complete(baskets[b]) =>
                     \A r \in 1..Len(returned'.val.dataset) :
                         BasketOf(returned'.val.dataset[r].id) # baskets[b].id_internal
          /\ return_baskets =>
                 /\ returned'.val.baskets.some
                 /\ returned'.val.baskets.val = SelectSeq(baskets, Complete)
      ]_vars

\* the basket of the first record had a valid passage and one that failed
\* validation and is gone with both; the basket of the second record is kept
C4_Witness ==
    /\ pc = "done"
    /\ ~return_baskets
    /\ dicts = <<WrongOffset, NoAnswer>>
    /\ tokenizer = BertLike /\ max_seq_len = 6
    /\ ~indices.some
    /\ problematic_sample_ids = {<<0, 0, 1>>}
    /\ Len(baskets) = 1
    /\ baskets[1].id_internal = <<1, 0>>
    /\ Len(returned.val.dataset) = 2
    /\ \A r \in 1..2 : BasketOf(returned.val.dataset[r].id) = <<1, 0>>

\* the ids of the baskets of the records of the call
InputBasketIds ==
    UNION {{<<(IF indices.some THEN indices.val[i] ELSE i - 1), j - 1>> :
                j \in 1..Len(pre_baskets[i].qas)} : i \in 1..Len(pre_baskets)}

\* C5: in the QA pipeline every content or validation error is surfaced in
\* the problematic-id set returned by dataset_from_dicts: whenever a basket of
\* the input is absent from the final dataset, the returned set contains an
\* id identifying that basket or one of its samples.
C5_ErrorsSurfaced ==
    pc = "done" =>
        \A id \in InputBasketIds :
            (\A r \in 1..Len(returned.val.dataset) :
                 BasketOf(returned.val.dataset[r].id) # id)
            => \E p \in returned.val.problematic_sample_ids : BasketOf(p) = id

\* C6: for a QA basket with zero gold answers, _convert_answers gives every
\* sample of the basket a max_answers x 2 label matrix whose row 0 is (0, 0)
\* and whose every other row is (-1, -1).
C6_NoAnswerLabels ==
    pc = "labelled" =>
        \A bk \in SamplePositions :
            Len(baskets[bk[1]].raw.answers) = 0 =>
                /\ "labels" \in DOMAIN SampleAt(bk).tokenized
                /\ SampleAt(bk).tokenized.labels =
                       [r \in 1..max_answers |-> IF r = 1 THEN <<0, 0>> ELSE <<-1, -1>>]

\* a basket without answers has two passages, both labelled
C6_Witness ==
    /\ pc = "labelled"
    /\ max_answers >= 2
    /\ \E bk \in SamplePositions :
           /\ Len(baskets[bk[1]].raw.answers) = 0
           /\ bk[2] = 2
           /\ "labels" \in DOMAIN SampleAt(bk).tokenized

\* the answer's text is found in the document and the document's characters
\* at the answer's offsets equal it after trimming
AnswerMatches(basket, answer) ==
    /\ IsSubstring(answer.text, basket.raw.document_text)
    /\ Strip(PySlice(basket.raw.document_text, answer.answer_start,
                     answer.answer_start + Len(answer.text))) = Strip(answer.text)
AllAnswersMatch(basket) ==
    \A i \in 1..Len(basket.raw.answers) : AnswerMatches(basket, basket.raw.answers[i])

\* 0-based index of the document token that holds character c: the last
\* token that starts at or before c
TokenOfChar(basket, c) ==
    LET offs == basket.raw.document_offsets
    IN  (CHOOSE k \in 1..Len(offs) :
            /\ offs[k] <= c
            /\ \A j \in (k + 1)..Len(offs) : offs[j] > c) - 1

\* the answer's token span relative to the passage of the sample
RelStart(basket, sample, answer) ==
    TokenOfChar(basket, answer.answer_start) - sample.tokenized.passage_start_t
RelEnd(basket, sample, answer) ==
    TokenOfChar(basket, answer.answer_start + Len(answer.text) - 1)
        - sample.tokenized.passage_start_t
InsidePassage(basket, sample, answer) ==
    LET passage_len == Len(sample.tokenized.passage_tokens)
    IN  /\ RelStart(basket, sample, answer) >= 0
        /\ RelStart(basket, sample, answer) < passage_len
        /\ RelEnd(basket, sample, answer) >= 0
        /\ RelEnd(basket, sample, answer) < passage_len

\* C7: in _convert_answers, for every sample and every gold answer i whose
\* passage-relative token span is not contained in [0, passage_len), the
\* case end = passage_len included, label row i of the sample is (0, 0).
\* Stated for baskets all of whose answers match the document, so that no
\* row is left by the answer check.
C7_OutsideIsNoAnswer ==
    pc = "labelled" =>
        \A bk \in SamplePositions :
            LET basket == baskets[bk[1]]
                sample == SampleAt(bk)
            IN  AllAnswersMatch(basket) =>
                    \A i \in 1..Len(basket.raw.answers) :
                        ~InsidePassage(basket, sample, basket.raw.answers[i]) =>
                            sample.tokenized.labels[i] = <<0, 0>>

\* the characters of the document covered by the tokens ts..te (0-based)
DecodeSpan(basket, ts, te) ==
    LET offs == basket.raw.document_offsets
        text == basket.raw.document_text
    IN  PySlice(text, offs[ts + 1],
                IF te + 1 < Len(offs) THEN offs[te + 2] ELSE Len(text))

\* C8: for every sample and every gold answer whose token span lies inside
\* the passage and whose text matches the document, the label pair (s, e)
\* less seq_2_start_t = sp_toks_start + question_len + sp_toks_mid plus
\* passage_start_t is the document token index of the answer's first and
\* last character, and the document characters of that token span equal the
\* gold answer text after trimming.
C8_LabelRoundTrip ==
    pc = "labelled" =>
        \A bk \in SamplePositions :
            LET basket == baskets[bk[1]]
                sample == SampleAt(bk)
                seq_2_start_t == sp_toks_start + Len(sample.tokenized.question_tokens)
                                     + sp_toks_mid
                passage_start_t == sample.tokenized.passage_start_t
            IN  AllAnswersMatch(basket) =>
                    \A i \in 1..Len(basket.raw.answers) :
                        LET answer == basket.raw.answers[i]
                            ts == sample.tokenized.labels[i][1] - seq_2_start_t
                                      + passage_start_t
                            te == sample.tokenized.labels[i][2] - seq_2_start_t
                                      + passage_start_t
                        IN  InsidePassage(basket, sample, answer) =>
                                /\ ts = TokenOfChar(basket, answer.answer_start)
                                /\ te = TokenOfChar(basket, answer.answer_start
                                                                + Len(answer.text) - 1)
                                /\ Strip(DecodeSpan(basket, ts, te)) = Strip(answer.text)

IsInternal(d) == "context" \in DOMAIN d /\ "qas" \in DOMAIN d
IsExternal(d) == ~IsInternal(d) /\ "text" \in DOMAIN d /\ "questions" \in DOMAIN d
Malformed(d) == ~IsInternal(d) /\ ~IsExternal(d)

\* C9: convert_qa_input_dict turns a record of the external shape {text,
\* questions, id?} into {qas, context}: context is the text and qas has one
\* entry per question, in order, with that question, the id of the record
\* (None when absent), answers = [] and answer_type = None.
C9_ExternalShape ==
    pc = "normalized" =>
        \A i \in 1..Len(dicts) :
            IsExternal(dicts[i]) =>
                /\ DOMAIN pre_baskets[i] = {"qas", "context"}
                /\ pre_baskets[i].context = dicts[i].text
                /\ Len(pre_baskets[i].qas) = Len(dicts[i].questions)
                /\ \A j \in 1..Len(dicts[i].questions) :
                       pre_baskets[i].qas[j] =
                           [question |-> dicts[i].questions[j],
                            id |-> IF "id" \in DOMAIN dicts[i] THEN dicts[i].id
                                   ELSE "<None>",
                            answers |-> <<>>,
                            answer_type |-> "<None>"]

\* a record with two questions and an id has been normalized
C9_Witness ==
    /\ pc = "normalized"
    /\ \E i \in 1..Len(dicts) :
           /\ IsExternal(dicts[i])
           /\ "id" \in DOMAIN dicts[i]
           /\ Len(dicts[i].questions) = 2
           /\ Len(pre_baskets[i].qas) = 2
           /\ pre_baskets[i].qas[2].id = dicts[i].id

\* C10: convert_qa_input_dict returns a record with both context and qas
\* unchanged, so that it is the identity on its own output; it fails with a
\* format error for every record with neither {context, qas} nor {text,
\* questions}, and a format error aborts dataset_from_dicts for the whole
\* call: nothing is normalized, no basket is made and nothing is returned.
C10_ShapeCheck ==
    /\ pc = "normalized" =>
           \A i \in 1..Len(dicts) :
               /\ IsInternal(dicts[i]) => pre_baskets[i] = dicts[i]
               /\ convert_qa_input_dict(pre_baskets[i]).raised = "none"
               /\ convert_qa_input_dict(pre_baskets[i]).val = pre_baskets[i]
    /\ (/\ InCall
        /\ StrideCheck(doc_stride, max_seq_len, max_query_length)
        /\ \E i \in 1..Len(dicts) : Malformed(dicts[i]))
           => /\ pc = "raised"
              /\ raised = "Exception"
              /\ pre_baskets = <<>>
              /\ baskets = <<>>
              /\ ~returned.some
    /\ (pc = "raised" /\ raised = "Exception")
           => \E i \in 1..Len(dicts) : Malformed(dicts[i])

\* a call of two records, the first well-formed, has been aborted by the
\* second
C10_Witness ==
    /\ pc = "raised"
    /\ raised = "Exception"
    /\ Len(dicts) = 2
    /\ IsInternal(dicts[1])
    /\ Malformed(dicts[2])
    /\ pre_baskets = <<>>

----------------------------------------------------------------------------
(* Properties of the retrieval pipeline                                    *)

\* the first (and only) feature row of the sample of a retrieval basket
RowOf(basket) == basket.samples.val[1].features.val[1]

\* every passage of the record has a label and a text
WellFormedPassages(raw) ==
    /\ "passages" \in DOMAIN raw
    /\ \A i \in 1..Len(raw.passages) :
           "label" \in DOMAIN raw.passages[i] /\ "text" \in DOMAIN raw.passages[i]

\* the entry holds the tokens of the text of one of the passages
EntryOfOneOf(entry, passages) ==
    \E i \in 1..Len(passages) : IsSubstring(Encode(passages[i].text).tokens, entry)

\* C11: for a basket with p positive and h hard-negative passages, the
\* emitted passage list (passage_input_ids of the feature row) has exactly
\* num_positives + num_hard_negatives entries, the first min(p,
\* num_positives) of them positives and the following min(h,
\* num_hard_negatives) hard negatives; 3 positives and 5 hard negatives with
\* num_positives = 1 and num_hard_negatives = 2 give 3 entries.  Stated for
\* processors that embed the title, the default.
C11_PassageList ==
    (ts_pc = "contexts" /\ embed_title) =>
        \A b \in 1..Len(ts_baskets.val) :
            LET basket == ts_baskets.val[b]
                raw == basket.raw
            IN  (/\ WellFormedPassages(raw)
                 /\ basket.samples.val[1].features.some
                 /\ num_positives + num_hard_negatives > 0) =>
                    LET ids == RowOf(basket).passage_input_ids
                        positives == WithLabel(raw.passages, "positive")
                        negatives == WithLabel(raw.passages, "hard_negative")
                        kp == Min(Len(positives), num_positives)
                        kh == Min(Len(negatives), num_hard_negatives)
                    IN  /\ Len(ids) = num_positives + num_hard_negatives
                        /\ \A i \in 1..kp : EntryOfOneOf(ids[i], positives)
                        /\ \A i \in (kp + 1)..(kp + kh) : EntryOfOneOf(ids[i], negatives)

\* the single sample of the basket has features
HasFeatures(b) == b.samples.some /\ b.samples.val[1].features.some

DistinctIds(bs) ==
    \A i, j \in 1..Len(bs) : bs[i].id_internal = bs[j].id_internal => i = j

IdsOf(bs) == {bs[i].id_internal : i \in 1..Len(bs)}

\* C12: retrieval finalization partitions input baskets with distinct ids:
\* each is either in the returned basket list (in input order, its sample's
\* features not None and its feature row in the flat list) or its
\* id_internal is in problematic_ids, never both and never neither;
\* problematic_ids holds no id of a kept basket and nothing but ids of
\* baskets of this call.
C12_Partition ==
    [][(ts_pc = "contexts" /\ ts_pc' = "done" /\ DistinctIds(ts_baskets.val)) =>
          LET input == ts_baskets.val
              kept == ts_baskets'.val
              out == ts_returned'.val
          IN  /\ kept = SelectSeq(input, HasFeatures)
              /\ out.dataset = [k \in 1..Len(kept) |-> RowOf(kept[k])]
              /\ \A b \in 1..Len(input) :
                     (input[b].id_internal \in out.problematic_ids)
                         <=> ~(input[b].id_internal \in IdsOf(kept))
              /\ \A b \in 1..Len(input) :
                     (input[b].id_internal \in IdsOf(kept)) <=> HasFeatures(input[b])
              /\ out.problematic_ids \cap IdsOf(kept) = {}
              /\ out.problematic_ids \subseteq IdsOf(input)
              /\ ts_return_baskets => out.baskets.val = kept
      ]_vars

\* the second call of a processor: one basket dropped and reported, one kept
C12_Witness ==
    /\ ts_pc = "done"
    /\ ts_calls = 2
    /\ ts_dicts = <<NoText, Mixed>>
    /\ ts_indices.some /\ ts_indices.val = <<11, 12>>
    /\ ts_returned.val.problematic_ids = {11}
    /\ Len(ts_returned.val.dataset) = 1
    /\ IdsOf(ts_baskets.val) = {12}

\* the query of the record has characters and no token
ZeroTokenQuery(raw) ==
    /\ "query" \in DOMAIN raw
    /\ Len(raw.query) > 0
    /\ LET q == raw.query
           stripped == IF q[Len(q)] = "?" THEN SubSeq(q, 1, Len(q) - 1) ELSE q
       IN  Len(EncodeOne(query_tokenizer, stripped).input_ids) = 0

\* a retrieval call has been entered and not yet handed back
InTsCall == ts_pc \in {"filled", "queries", "contexts", "done", "raised"}

\* C13: when the query of one basket tokenizes to zero tokens, the error is
\* recovered: dataset_from_dicts completes, only that basket's conversion is
\* abandoned, and every other basket of the call is still converted.
C13_ZeroTokenQueryRecovered ==
    (InTsCall /\ \E i \in 1..Len(ts_dicts) : ZeroTokenQuery(ts_dicts[i])) =>
        /\ ts_pc # "raised"
        /\ ts_pc \in {"queries", "contexts", "done"} =>
               /\ ts_baskets.some
               /\ \A b \in 1..Len(ts_baskets.val) :
                      ~ZeroTokenQuery(ts_baskets.val[b].raw) =>
                          ts_baskets.val[b].samples.some

\* the conversion of the query of the record raises
QueryRaises(raw) == "query" \in DOMAIN raw /\ Len(raw.query) = 0

\* the conversion of the passages of the record raises whatever is selected
ContextsRaise(raw) ==
    /\ "passages" \in DOMAIN raw
    /\ \/ \E i \in 1..Len(raw.passages) : "label" \notin DOMAIN raw.passages[i]
       \/ num_positives + num_hard_negatives = 0
       \/ /\ num_positives > 0
          /\ \E i \in 1..Len(raw.passages) :
                 raw.passages[i].label = "positive" /\ "text" \notin DOMAIN raw.passages[i]
          /\ \A i \in 1..Len(raw.passages) :
                 raw.passages[i].label = "positive" => "text" \notin DOMAIN raw.passages[i]

\* C14: an exception raised while converting a basket's query or contexts
\* never propagates out of dataset_from_dicts: the sample gets features =
\* None, features once None stay None through the context stage, the basket
\* is removed at finalization with its id_internal in the returned
\* problematic ids, and the other baskets are unaffected.  The only
\* exception that leaves the call is the one that follows a query without
\* tokens.
C14_ExceptionsContained ==
    [][/\ (ts_pc = "filled" /\ ts_pc' = "queries" /\ ts_baskets'.some) =>
              \A b \in 1..Len(ts_baskets.val) :
                  /\ ts_baskets'.val[b].samples.some
                  /\ QueryRaises(ts_baskets.val[b].raw) <=> ~HasFeatures(ts_baskets'.val[b])
       /\ (ts_pc = "queries" /\ ts_pc' = "contexts") =>
              /\ Len(ts_baskets'.val) = Len(ts_baskets.val)
              /\ \A b \in 1..Len(ts_baskets.val) :
                     /\ ~HasFeatures(ts_baskets.val[b]) => ~HasFeatures(ts_baskets'.val[b])
                     /\ ContextsRaise(ts_baskets.val[b].raw) => ~HasFeatures(ts_baskets'.val[b])
                     /\ (/\ HasFeatures(ts_baskets.val[b])
                         /\ "passages" \in DOMAIN ts_baskets.val[b].raw
                         /\ WellFormedPassages(ts_baskets.val[b].raw)
                         /\ num_positives + num_hard_negatives > 0)
                            => HasFeatures(ts_baskets'.val[b])
       /\ (ts_pc = "contexts" /\ ts_pc' = "done") =>
              \A b \in 1..Len(ts_baskets.val) :
                  ~HasFeatures(ts_baskets.val[b]) =>
                      /\ ts_baskets.val[b].id_internal \in ts_returned'.val.problematic_ids
                      /\ \A k \in 1..Len(ts_baskets'.val) :
                             ts_baskets'.val[k] # ts_baskets.val[b]
       /\ (ts_pc' = "raised") =>
              /\ ts_raised' = "TypeError"
              /\ \E i \in 1..Len(ts_dicts') : ZeroTokenQuery(ts_dicts'[i])
      ]_vars

\* the query of the first record raised, its sample went through the context
\* stage without features and the basket is reported; the second is kept
C14_Witness ==
    /\ ts_pc = "done"
    /\ ts_dicts = <<EmptyQuery, Mixed>>
    /\ ~ts_indices.some
    /\ ts_returned.val.problematic_ids = {0}
    /\ IdsOf(ts_baskets.val) = {1}
    /\ Len(ts_returned.val.dataset) = 1
    /\ "passage_input_ids" \in DOMAIN ts_returned.val.dataset[1]

C16_NormalizeQuestion ==
    ts_pc = "queries" =>
        \A i \in 1..Len(ts_dicts) :
            "query" \in DOMAIN ts_dicts[i] =>
                LET question == ts_dicts[i].query
                    n == Len(question)
                    r == _normalize_question(question)
                IN  /\ r.raised = "none"
                    /\ r.val = IF n > 0 /\ question[n] = "?"
                               THEN SubSeq(question, 1, n - 1)
                               ELSE question

\* C17: add_task fails with an input-validation error when label_list is not
\* a list and leaves the registry unchanged; otherwise it sets tasks[name] to
\* a descriptor with the given label_list and metric, label_name defaulting
\* to "{name}_label" and label_tensor_name = label_name + "_ids", replacing
\* any earlier descriptor of that name and leaving the other tasks unchanged.
C17_AddTask ==
    [][(ts_pc = "idle" /\ ts_pc' = "idle" /\ task_args'.some) =>
          LET a == task_args'.val
              label_name == IF a.label_name.some THEN a.label_name.val
                            ELSE a.name \o <<"_", "l", "a", "b", "e", "l">>
          IN  IF a.label_list.type # "list"
              THEN ts_raised' = "ValueError" /\ tasks' = tasks
              ELSE /\ ts_raised' = "none"
                   /\ DOMAIN tasks' = DOMAIN tasks \cup {a.name}
                   /\ \A n \in DOMAIN tasks : n # a.name => tasks'[n] = tasks[n]
                   /\ tasks'[a.name].label_list = a.label_list
                   /\ tasks'[a.name].metric = a.metric
                   /\ tasks'[a.name].label_name = label_name
                   /\ tasks'[a.name].label_tensor_name =
                          label_name \o <<"_", "i", "d", "s">>
      ]_vars

\* a task added with the default label name beside another task
C17_Witness ==
    /\ ts_pc = "idle"
    /\ task_args.some
    /\ task_args.val.name = <<"t">>
    /\ ~task_args.val.label_name.some
    /\ task_args.val.label_list.type = "list"
    /\ DOMAIN tasks = {<<"t">>, <<"u">>}
    /\ tasks[<<"t">>].label_tensor_name =
           <<"t", "_", "l", "a", "b", "e", "l", "_", "i", "d", "s">>
    /\ tasks[<<"t">>].metric = task_args.val.metric

\* C18: calling SquadProcessor.dataset_from_dicts twice on the same processor
\* with the same input records, the same indices and the same mode produces
\* identical feature rows: nothing the first call leaves in the processor
\* changes the rows of the second.
C18_Idempotent ==
    (/\ pc = "done"
     /\ last_call.some
     /\ last_call.val.dicts = dicts
     /\ last_call.val.indices.some = indices.some
     /\ last_call.val.indices.val = indices.val
     /\ last_call.val.return_baskets = return_baskets)
        => returned.val.dataset = last_call.val.dataset

\* the second of two equal calls, after the first has left a problematic
\* sample id in the processor, with a feature row to compare
C18_Witness ==
    /\ pc = "done"
    /\ n_calls = 2
    /\ last_call.some
    /\ dicts = <<WrongOffset, NoAnswer>>
    /\ last_call.val.dicts = dicts
    /\ last_call.val.indices.some = indices.some
    /\ last_call.val.return_baskets = return_baskets
    /\ ~return_baskets
    /\ problematic_sample_ids # {}
    /\ Len(last_call.val.dataset) > 0
    /\ Len(returned.val.dataset) > 0

\* the record has the internal shape and its document text is empty
EmptyDocument(d) == IsInternal(d) /\ d.context = <<>>

\* C19: a basket whose document text is empty is a recovered content error:
\* in training and in inference mode dataset_from_dicts completes without
\* raising, the basket is dropped (no sample, no feature row, not in the
\* returned baskets) and the other baskets of the call are processed
\* normally.
C19_EmptyDocRecovered ==
    (/\ InCall
     /\ StrideCheck(doc_stride, max_seq_len, max_query_length)
     /\ \A i \in 1..Len(dicts) : IsInternal(dicts[i])
     /\ \E i \in 1..Len(dicts) : EmptyDocument(dicts[i])) =>
        /\ pc # "raised"
        /\ pc = "done" =>
               /\ \A b \in 1..Len(baskets) : baskets[b].raw.document_text # <<>>
               /\ Len(baskets) =
                      Cardinality({i \in 1..Len(dicts) : ~EmptyDocument(dicts[i])})
               /\ Len(returned.val.dataset) >= Len(baskets)

\* the windowing utility raises for the basket
WindowingRaises(basket) ==
    get_passage_offsets(basket.raw.document_offsets, doc_stride,
                        PassageLenT(basket)).raised

\* the basket has a sample list and it is empty
NoPassage(basket) == basket.samples.some /\ Len(basket.samples.val) = 0

\* C20: when the windowing utility raises for a basket, the exception does
\* not propagate: the basket is assigned an empty sample list, passes through
\* answer conversion and feature materialization without effect, is removed
\* as incomplete at finalization, and every other basket gets one sample per
\* returned passage span.
C20_WindowingFailure ==
    [][/\ (pc = "tokenized") =>
              /\ pc' = "split"
              /\ Len(baskets') = Len(baskets)
              /\ \A b \in 1..Len(baskets) :
                     baskets[b].raw.document_text # <<>> =>
                         IF WindowingRaises(baskets[b])
                         THEN NoPassage(baskets'[b])
                         ELSE LET spans == get_passage_offsets(
                                               baskets[b].raw.document_offsets,
                                               doc_stride, PassageLenT(baskets[b])).spans
                              IN  /\ baskets'[b].samples.some
                                  /\ Len(baskets'[b].samples.val) = Len(spans)
                                  /\ \A k \in 1..Len(spans) :
                                         baskets'[b].samples.val[k].tokenized.passage_start_t
                                             = spans[k].passage_start_t
       /\ (pc \in {"split", "labelled"} /\ pc' \in {"labelled", "featurized"}) =>
              \A b \in 1..Len(baskets) :
                  NoPassage(baskets[b]) => baskets'[b] = baskets[b]
       /\ (pc = "featurized" /\ pc' = "done") =>
              \A b \in 1..Len(baskets) :
                  NoPassage(baskets[b]) =>
                      /\ \A k \in 1..Len(baskets') :
                             baskets'[k].id_internal # baskets[b].id_internal
                      /\ return_baskets =>
                             \A k \in 1..Len(returned'.val.baskets.val) :
                                 returned'.val.baskets.val[k].id_internal
                                     # baskets[b].id_internal
      ]_vars

\* a call whose first document has no token has completed: that basket is
\* gone and the second is kept with its rows
C20_Witness ==
    /\ pc = "done"
    /\ dicts = <<BlankDoc, NoAnswer>>
    /\ raised = "none"
    /\ Len(baskets) = 1
    /\ baskets[1].raw.document_text = ABC
    /\ Len(returned.val.dataset) = Len(baskets[1].samples.val)
    /\ Len(returned.val.dataset) > 0

\* C21: for every configuration accepted by the construction check and every
\* question, the passage token budget requested from the windowing utility,
\* max_seq_len - min(len(question_tokens), max_query_length) -
\* n_special_tokens, is strictly greater than doc_stride, so consecutive
\* passage windows leave no gap.
C21_BudgetExceedsStride ==
    (pc = "split" /\ StrideCheck(doc_stride, max_seq_len, max_query_length)) =>
        \A b \in 1..Len(baskets) :
            baskets[b].raw.document_text # <<>> =>
                PassageLenT(baskets[b]) > doc_stride

\* C22: when the re-extracted text of answer i mismatches the gold text for a
\* sample, label row i and every later answer row of that sample are set to
\* (-100, -100) and the rows before i keep their computed values.
C22_MismatchMarksLaterRows ==
    pc = "labelled" =>
        \A bk \in SamplePositions :
            LET labels == SampleAt(bk).tokenized.labels
                n_answers == Len(baskets[bk[1]].raw.answers)
            IN  \A i \in 1..Len(labels) :
                    labels[i] = <<-100, -100>> =>
                        /\ \A j \in (i + 1)..Min(n_answers, Len(labels)) :
                               labels[j] = <<-100, -100>>
                        /\ \A j \in 1..(i - 1) : labels[j] # <<-100, -100>>

\* the record has an answer whose text is not in the document or differs
\* from the document text at its offsets
HasWrongAnswer(d) ==
    /\ IsInternal(d)
    /\ \E q \in 1..Len(d.qas) : \E a \in 1..Len(d.qas[q].answers) :
           LET answer == d.qas[q].answers[a]
               at == PySlice(d.context, answer.answer_start,
                             answer.answer_start + Len(answer.text))
           IN  \/ ~IsSubstring(answer.text, d.context)
               \/ Strip(at) # Strip(answer.text)

\* C23: a basket with a gold answer whose text is not contained verbatim in
\* the document, or differs from the document substring at its offsets, is
\* not converted in training mode: no feature row of that basket is in the
\* dataset, whichever passage the offsets fall into and also when they fall
\* into no passage.  Stated for calls with one record of one question.
C23_WrongAnswerNotConverted ==
    (/\ pc = "done"
     /\ ~return_baskets
     /\ Len(dicts) = 1
     /\ HasWrongAnswer(dicts[1])
     /\ Len(dicts[1].qas) = 1) =>
        Len(returned.val.dataset) = 0

\* the label matrix of the sample has max_answers rows and no -100
LabelsValid(sample) ==
    /\ "labels" \in DOMAIN sample.tokenized
    /\ Len(sample.tokenized.labels) = max_answers
    /\ \A r \in 1..Len(sample.tokenized.labels) :
           sample.tokenized.labels[r][1] # -100 /\ sample.tokenized.labels[r][2] # -100

\* C24: after _passages_to_paddle_features, for every sample: if the five
\* arrays have length max_seq_len, the id has exactly 3 components and, only
\* when labels are required (return_baskets false), the label matrix has
\* exactly max_answers rows and no -100, then features is a one-element list
\* holding the row; otherwise features is None and the sample id is in the
\* problematic set.  In inference mode answer conversion is skipped and no
\* sample is rejected because of labels.
C24_Validation ==
    pc = "featurized" =>
        \A bk \in SamplePositions :
            LET sample == SampleAt(bk)
                valid == /\ WithinBudget(sample)
                         /\ Len(sample.id) = 3
                         /\ return_baskets \/ LabelsValid(sample)
            IN  /\ IF valid
                   THEN /\ sample.features.some
                        /\ Len(sample.features.val) = 1
                        /\ sample.features.val[1].id = sample.id
                        /\ \A a \in 1..5 :
                               Len(FiveArrays(sample.features.val[1])[a]) = max_seq_len
                   ELSE /\ ~sample.features.some
                        /\ sample.id \in problematic_sample_ids
                /\ return_baskets =>
                       /\ "labels" \notin DOMAIN sample.tokenized
                       /\ sample.features.some

\* a training call has left one sample rejected for its labels and recorded,
\* and one sample with its feature row
C24_Witness ==
    /\ pc = "featurized"
    /\ ~return_baskets
    /\ \E bk \in SamplePositions :
           /\ ~LabelsValid(SampleAt(bk))
           /\ ~SampleAt(bk).features.some
           /\ SampleAt(bk).id \in problematic_sample_ids
    /\ \E bk \in SamplePositions :
           /\ LabelsValid(SampleAt(bk))
           /\ SampleAt(bk).features.some

\* C25: in every valid feature row, span_mask is 1 exactly at the leading
\* special-token positions [0, sp_toks_start) and at the passage positions
\* [seq_2_start_t, seq_2_start_t + passage_len), and 0 at every question
\* token, mid special token, trailing special token and padding position;
\* padding_mask is 1 exactly on the first question_len + passage_len +
\* special-token positions and 0 on the padding.  Positions are counted
\* from 0.
C25_Masks ==
    pc = "featurized" =>
        \A bk \in SamplePositions :
            SampleAt(bk).features.some =>
                LET sample == SampleAt(bk)
                    row == sample.features.val[1]
                    question_len == Len(sample.tokenized.question_tokens)
                    passage_len == Len(sample.tokenized.passage_tokens)
                    seq_2_start_t == row.seq_2_start_t
                    used == question_len + passage_len
                                + sp_toks_start + sp_toks_mid + sp_toks_end
                IN  /\ seq_2_start_t = sp_toks_start + question_len + sp_toks_mid
                    /\ Len(row.span_mask) = max_seq_len
                    /\ Len(row.padding_mask) = max_seq_len
                    /\ \A p \in 0..(max_seq_len - 1) :
                           /\ row.span_mask[p + 1] =
                                  IF \/ p < sp_toks_start
                                     \/ (seq_2_start_t <= p /\ p < seq_2_start_t + passage_len)
                                  THEN 1 ELSE 0
                           /\ row.padding_mask[p + 1] = IF p < used THEN 1 ELSE 0

\* a row with a question, a passage, closing special tokens and padding
C25_Witness ==
    /\ pc = "featurized"
    /\ \E bk \in SamplePositions :
           /\ SampleAt(bk).features.some
           /\ LET sample == SampleAt(bk)
                  row == sample.features.val[1]
              IN  /\ Len(sample.tokenized.question_tokens) = 2
                  /\ Len(sample.tokenized.passage_tokens) = 2
                  /\ sp_toks_mid = 2
                  /\ max_seq_len = 9
                  /\ row.span_mask = <<1, 0, 0, 0, 0, 1, 1, 0, 0>>
                  /\ row.padding_mask = <<1, 1, 1, 1, 1, 1, 1, 1, 0>>

\* the label entry is the fill value or a position the span mask admits
AdmittedEntry(row, e) ==
    \/ e = -1
    \/ /\ 0 <= e /\ e < max_seq_len
       /\ e < Len(row.span_mask)
       /\ row.span_mask[e + 1] = 1

\* C26: in every feature row that reaches the dataset in training mode, each
\* label entry is either -1 or an index i with 0 <= i < max_seq_len and
\* span_mask[i] = 1: no label start or end points at a question token, a mid
\* or trailing special token, or padding.
C26_LabelsInsideMask ==
    (pc = "done" /\ ~return_baskets) =>
        \A r \in 1..Len(returned.val.dataset) :
            LET row == returned.val.dataset[r]
            IN  \A a \in 1..Len(row.labels) :
                    /\ AdmittedEntry(row, row.labels[a][1])
                    /\ AdmittedEntry(row, row.labels[a][2])

\* C27: the problematic-id set returned by dataset_from_dicts contains only
\* ids of samples that failed validation in that same call: a call none of
\* whose samples is rejected returns an empty set, whatever earlier calls
\* recorded.
C27_ProblematicOfThisCall ==
    [][(pc = "featurized" /\ pc' = "done") =>
          returned'.val.problematic_sample_ids \subseteq
              {SampleAt(bk).id : bk \in {p \in SamplePositions : ~SampleAt(p).features.some}}
      ]_vars

\* C28: _convert_answers completes for a basket with any number of gold
\* answers, including more than max_answers, and leaves every sample with a
\* label matrix of exactly max_answers rows and 2 columns.  Stated for
\* baskets that have a sample list.
C28_AnyNumberOfAnswers ==
    [][(/\ pc = "split"
        /\ ~return_baskets
        /\ \A b \in 1..Len(baskets) : baskets[b].samples.some) =>
          /\ pc' = "labelled"
          /\ Len(baskets') = Len(baskets)
          /\ \A b \in 1..Len(baskets') :
                 \A k \in 1..Len(baskets'[b].samples.val) :
                     LET labels == baskets'[b].samples.val[k].tokenized.labels
                     IN  /\ Len(labels) = max_answers
                         /\ \A r \in 1..Len(labels) : Len(labels[r]) = 2
      ]_vars

\* C29: the implicit label vector [1] * num_positives + [0] *
\* num_hard_negatives is aligned with the passage list of every converted
\* basket: no hard-negative passage is at a position labelled 1 and no
\* positive passage at a position labelled 0, also when the basket has fewer
\* than num_positives positive passages.  Positions are those of the list
\* positive_context + hard_negative_context the sample is given.
C29_LabelsAligned ==
    ts_pc = "contexts" =>
        \A b \in 1..Len(ts_baskets.val) :
            LET sample == ts_baskets.val[b].samples.val[1]
            IN  (sample.features.some /\ "passages" \in DOMAIN sample.clear_text) =>
                    \A i \in 1..Len(sample.clear_text.passages) :
                        /\ i <= num_positives =>
                               sample.clear_text.passages[i].label # "hard_negative"
                        /\ i > num_positives =>
                               sample.clear_text.passages[i].label # "positive"

\* the four fields of a retrieval feature row
RowFields ==
    {"query_input_ids", "query_segment_ids", "passage_input_ids", "passage_segment_ids"}

\* C30: every feature row the retrieval pipeline hands to the dataset holds
\* query_input_ids, query_segment_ids, passage_input_ids and
\* passage_segment_ids: a basket whose record lacks the query key or the
\* passages key contributes no row and is reported in the problematic ids.
C30_RowsComplete ==
    [][(ts_pc = "contexts" /\ ts_pc' = "done") =>
          /\ \A r \in 1..Len(ts_returned'.val.dataset) :
                 RowFields \subseteq DOMAIN ts_returned'.val.dataset[r]
          /\ \A b \in 1..Len(ts_baskets.val) :
                 ("query" \notin DOMAIN ts_baskets.val[b].raw
                    \/ "passages" \notin DOMAIN ts_baskets.val[b].raw) =>
                     ts_baskets.val[b].id_internal \in ts_returned'.val.problematic_ids
      ]_vars

====
